---- MODULE Spec2Model ----
(***************************************************************************)
(* Gravity sandbox (script.js): the fixed-step scheduler Simulation.next,   *)
(* the force pass and integrator Simulation.updateObjects, the body set,    *)
(* and the camera.                                                          *)
(*                                                                          *)
(* Numbers.  The step scheduler decides a whole number of steps from        *)
(* IEEE-754 binary64 values, so its three quantities (deltaTimeSeconds,     *)
(* updatesPerSecond, updateRollover) are modelled as binary64 values with   *)
(* round-to-nearest-even, mantissas held as multi-limb naturals.            *)
(* Positions, velocities, forces, masses, radii and times are Numbers on a  *)
(* grid of 1/Scale: every source expression is evaluated exactly and then   *)
(* rounded once to the grid; NaN stands for any non-finite Number.  Mass is *)
(* measured in the unit that makes the gravitational constant 1.            *)
(***************************************************************************)
EXTENDS Integers, Sequences, FiniteSets, TLC

(***************************************************************************)
(* Multi-limb naturals: little-endian sequences of limbs, no leading zero   *)
(* limb, <<>> is zero.                                                      *)
(***************************************************************************)
LimbBits == 14

LimbBase == 2 ^ LimbBits

RECURSIVE BTrim(_)
BTrim(a) ==
  IF a = <<>> THEN <<>>
  ELSE IF a[Len(a)] = 0 THEN BTrim(SubSeq(a, 1, Len(a) - 1))
  ELSE a

RECURSIVE BFromInt(_)
BFromInt(n) ==
  IF n = 0 THEN <<>> ELSE <<n % LimbBase>> \o BFromInt(n \div LimbBase)

RECURSIVE BToInt(_)
BToInt(a) ==
  IF a = <<>> THEN 0 ELSE Head(a) + LimbBase * BToInt(Tail(a))

RECURSIVE BAddC(_, _, _)
BAddC(a, b, c) ==
  IF a = <<>> /\ b = <<>> THEN (IF c = 0 THEN <<>> ELSE <<c>>)
  ELSE LET x == IF a = <<>> THEN 0 ELSE Head(a)
           y == IF b = <<>> THEN 0 ELSE Head(b)
           s == x + y + c
       IN <<s % LimbBase>>
            \o BAddC(IF a = <<>> THEN <<>> ELSE Tail(a),
                     IF b = <<>> THEN <<>> ELSE Tail(b), s \div LimbBase)

BAdd(a, b) == BAddC(a, b, 0)

\* a - b for a >= b
RECURSIVE BSubB(_, _, _)
BSubB(a, b, c) ==
  IF a = <<>> THEN <<>>
  ELSE LET y == IF b = <<>> THEN 0 ELSE Head(b)
           s == Head(a) - y - c
       IN <<s % LimbBase>>
            \o BSubB(Tail(a), IF b = <<>> THEN <<>> ELSE Tail(b),
                     IF s < 0 THEN 1 ELSE 0)

BSub(a, b) == BTrim(BSubB(a, b, 0))

\* -1, 0, 1 as a < b, a = b, a > b
RECURSIVE BCmpAt(_, _, _)
BCmpAt(a, b, i) ==
  IF i = 0 THEN 0
  ELSE IF a[i] < b[i] THEN -1
  ELSE IF a[i] > b[i] THEN 1
  ELSE BCmpAt(a, b, i - 1)

BCmp(a, b) ==
  IF Len(a) < Len(b) THEN -1
  ELSE IF Len(a) > Len(b) THEN 1
  ELSE BCmpAt(a, b, Len(a))

RECURSIVE BMulSmallC(_, _, _)
BMulSmallC(a, k, c) ==
  IF a = <<>> THEN BFromInt(c)
  ELSE LET p == Head(a) * k + c
       IN <<p % LimbBase>> \o BMulSmallC(Tail(a), k, p \div LimbBase)

BMulSmall(a, k) == BTrim(BMulSmallC(a, k, 0))

RECURSIVE BMul(_, _)
BMul(a, b) ==
  IF a = <<>> \/ b = <<>> THEN <<>>
  ELSE LET rest == BMul(a, Tail(b))
       IN BAdd(BMulSmall(a, Head(b)),
               IF rest = <<>> THEN <<>> ELSE <<0>> \o rest)

RECURSIVE BitLenSmall(_)
BitLenSmall(n) == IF n = 0 THEN 0 ELSE 1 + BitLenSmall(n \div 2)

BBitLen(a) ==
  IF a = <<>> THEN 0 ELSE LimbBits * (Len(a) - 1) + BitLenSmall(a[Len(a)])

BShl(a, s) ==
  IF a = <<>> THEN <<>>
  ELSE [i \in 1..(s \div LimbBits) |-> 0] \o BMulSmall(a, 2 ^ (s % LimbBits))

BShr(a, s) ==
  LET q == s \div LimbBits
      r == s % LimbBits
      t == IF q >= Len(a) THEN <<>> ELSE SubSeq(a, q + 1, Len(a))
  IN BTrim([i \in 1..Len(t) |->
              (t[i] \div (2 ^ r))
              + (IF i < Len(t) THEN (t[i + 1] % (2 ^ r)) * (2 ^ (LimbBits - r))
                 ELSE 0)])

\* a mod 2^s
BLow(a, s) ==
  LET q == s \div LimbBits
      r == s % LimbBits
  IN IF q >= Len(a) THEN a
     ELSE BTrim(SubSeq(a, 1, q) \o <<a[q + 1] % (2 ^ r)>>)

BIsOdd(a) == a # <<>> /\ a[1] % 2 = 1

BBit(a, i) == (a[(i \div LimbBits) + 1] \div (2 ^ (i % LimbBits))) % 2

\* schoolbook long division by limbs: <<quotient, remainder>> of n by d, d # 0
\* the largest k < LimbBase with k * d <= r, found bit by bit from bit b down
RECURSIVE BDigit(_, _, _, _)
BDigit(r, d, k, b) ==
  IF b < 0 THEN k
  ELSE IF BCmp(BMulSmall(d, k + 2 ^ b), r) <= 0
  THEN BDigit(r, d, k + 2 ^ b, b - 1)
  ELSE BDigit(r, d, k, b - 1)

RECURSIVE BDivLimbs(_, _, _, _, _)
BDivLimbs(n, d, i, q, r) ==
  IF i = 0 THEN <<BTrim(q), r>>
  ELSE LET r2 == BTrim(<<n[i]>> \o r)
           k == BDigit(r2, d, 0, LimbBits - 1)
           r3 == BSub(r2, BMulSmall(d, k))
           q2 == <<k>> \o q
       IN IF Len(r3) >= 0 /\ Len(q2) >= 0   \* evaluate both before descending
          THEN BDivLimbs(n, d, i - 1, q2, r3)
          ELSE <<>>

BDivMod(n, d) == BDivLimbs(n, d, Len(n), <<>>, <<>>)

(***************************************************************************)
(* Non-negative binary64 values: [m, e] stands for m * 2^e, m of exactly    *)
(* Precision bits (or zero).  Every operation computes the exact result and *)
(* rounds it to the nearest value, ties to even.  Infinity and NaN are two  *)
(* values of their own.                                                     *)
(***************************************************************************)
Precision == 53

DZero == [m |-> <<>>, e |-> 0]

DInfinity == [m |-> <<>>, e |-> 1]

DNaN == [m |-> <<>>, e |-> 2]

DIsFinite(a) == a # DInfinity /\ a # DNaN

DRound(m, e) ==
  LET L == BBitLen(m) IN
  IF L = 0 THEN DZero
  ELSE IF L <= Precision
  THEN [m |-> BShl(m, Precision - L), e |-> e - (Precision - L)]
  ELSE LET s == L - Precision
           q == BShr(m, s)
           c == BCmp(BLow(m, s), BShl(<<1>>, s - 1))
           q2 == IF c > 0 \/ (c = 0 /\ BIsOdd(q)) THEN BAdd(q, <<1>>) ELSE q
       IN IF BBitLen(q2) > Precision
          THEN [m |-> BShr(q2, 1), e |-> e + s + 1]
          ELSE [m |-> q2, e |-> e + s]

DFromInt(n) == DRound(BFromInt(n), 0)

\* a * b; 0 * Infinity is NaN
DMul(a, b) ==
  IF a = DNaN \/ b = DNaN THEN DNaN
  ELSE IF a = DInfinity \/ b = DInfinity
  THEN (IF a = DZero \/ b = DZero THEN DNaN ELSE DInfinity)
  ELSE DRound(BMul(a.m, b.m), a.e + b.e)

\* the exact sum, not rounded
XAdd(a, b) ==
  IF a.m = <<>> THEN b
  ELSE IF b.m = <<>> THEN a
  ELSE LET e == IF a.e < b.e THEN a.e ELSE b.e
       IN [m |-> BAdd(BShl(a.m, a.e - e), BShl(b.m, b.e - e)), e |-> e]

DAdd(a, b) ==
  IF a = DNaN \/ b = DNaN THEN DNaN
  ELSE IF a = DInfinity \/ b = DInfinity THEN DInfinity
  ELSE LET x == XAdd(a, b) IN DRound(x.m, x.e)

\* a / b for a finite b > 0
DDiv(a, b) ==
  IF a.m = <<>> THEN a
  ELSE LET k == Precision + 2
           qr == BDivMod(BShl(a.m, k), b.m)
           sticky == IF qr[2] = <<>> THEN <<>> ELSE <<1>>
       IN DRound(BAdd(BAdd(qr[1], qr[1]), sticky), a.e - b.e - k - 1)

\* x % 1 for x >= 0 (exact); NaN for Infinity and NaN
DMod1(a) ==
  IF ~DIsFinite(a) THEN DNaN
  ELSE IF a.e >= 0 THEN DZero
  ELSE DRound(BLow(a.m, 0 - a.e), a.e)

\* Math.floor(x) for a finite x >= 0, as an integer
DFloor(a) ==
  IF a.e >= 0 THEN BToInt(BShl(a.m, a.e)) ELSE BToInt(BShr(a.m, 0 - a.e))

\* x > n for a whole n >= 0; false of NaN
DExceeds(a, n) ==
  a # DNaN /\ (a = DInfinity \/ DFloor(a) > n \/ (DFloor(a) = n /\ a # DFromInt(n)))

\* x < 1; false of NaN
DLessThanOne(a) == DIsFinite(a) /\ (a.m = <<>> \/ BBitLen(a.m) + a.e <= 0)

\* binary64 values with a sign: [s, m, e] stands for s * m * 2^e, s in {-1, 0, 1};
\* the two zeros are one value
SZero == [s |-> 0, m |-> <<>>, e |-> 0]

Signed(s, d) == IF d.m = <<>> THEN SZero ELSE [s |-> s, m |-> d.m, e |-> d.e]

\* the exact sum of two signed values, not rounded
XSAdd(a, b) ==
  IF a.s = 0 THEN b
  ELSE IF b.s = 0 THEN a
  ELSE LET e == IF a.e < b.e THEN a.e ELSE b.e
           x == BShl(a.m, a.e - e)
           y == BShl(b.m, b.e - e)
           c == BCmp(x, y)
       IN IF a.s = b.s THEN [s |-> a.s, m |-> BAdd(x, y), e |-> e]
          ELSE IF c = 0 THEN SZero
          ELSE IF c > 0 THEN [s |-> a.s, m |-> BSub(x, y), e |-> e]
          ELSE [s |-> b.s, m |-> BSub(y, x), e |-> e]

SNeg(a) == [a EXCEPT !.s = 0 - a.s]

\* a + b
SAdd(a, b) == LET x == XSAdd(a, b) IN Signed(x.s, DRound(x.m, x.e))

\* a - b
SSub(a, b) == SAdd(a, SNeg(b))

(***************************************************************************)
(* Grid Numbers.                                                            *)
(***************************************************************************)
Scale == 60

\* any non-finite Number: NaN, Infinity, -Infinity
NaN == -2000000000

IsFinite(x) == x # NaN

Abs(x) == IF x < 0 THEN 0 - x ELSE x

\* the integer nearest to a / b, b # 0
RoundDiv(a, b) ==
  LET sign == IF (a < 0) = (b < 0) THEN 1 ELSE -1
  IN sign * ((2 * Abs(a) + Abs(b)) \div (2 * Abs(b)))

NAdd(a, b) == IF a = NaN \/ b = NaN THEN NaN ELSE a + b

NSub(a, b) == IF a = NaN \/ b = NaN THEN NaN ELSE a - b

NNeg(a) == IF a = NaN THEN NaN ELSE 0 - a

\* a * b
NMul(a, b) == IF a = NaN \/ b = NaN THEN NaN ELSE RoundDiv(a * b, Scale)

\* a / b; x / 0 is Infinity, -Infinity or NaN
NDiv(a, b) ==
  IF a = NaN \/ b = NaN \/ b = 0 THEN NaN ELSE RoundDiv(a * Scale, b)

\* a * b / c
NMulDiv(a, b, c) ==
  IF a = NaN \/ b = NaN \/ c = NaN \/ c = 0 THEN NaN ELSE RoundDiv(a * b, c)

\* a < b; false when either is NaN
NLess(a, b) == a # NaN /\ b # NaN /\ a < b

NMin(a, b) == IF a = NaN \/ b = NaN THEN NaN ELSE IF a < b THEN a ELSE b

\* the largest r in lo..hi with r * r <= n
RECURSIVE ISqrtIn(_, _, _)
ISqrtIn(n, lo, hi) ==
  IF lo >= hi THEN lo
  ELSE LET mid == (lo + hi + 1) \div 2
       IN IF mid * mid <= n THEN ISqrtIn(n, mid, hi) ELSE ISqrtIn(n, lo, mid - 1)

\* the integer nearest to the square root of n
ISqrt(n) ==
  LET r == ISqrtIn(n, 0, 46340) IN IF n - r * r > r THEN r + 1 ELSE r

(***************************************************************************)
(* Exact rationals, for the camera: a sign s, and n / d in lowest terms.     *)
(***************************************************************************)
RECURSIVE TrailingZerosSmall(_)
TrailingZerosSmall(n) == IF n % 2 = 1 THEN 0 ELSE 1 + TrailingZerosSmall(n \div 2)

RECURSIVE BTrailingZeros(_)
BTrailingZeros(a) ==
  IF Head(a) = 0 THEN LimbBits + BTrailingZeros(Tail(a))
  ELSE TrailingZerosSmall(Head(a))

\* a without its factors of two, a # 0
BOddPart(a) == BShr(a, BTrailingZeros(a))

\* the greatest common divisor of two odd numbers, by subtraction
RECURSIVE BGcdOdd(_, _)
BGcdOdd(a, b) ==
  LET c == BCmp(a, b)
      big == IF c > 0 THEN a ELSE b
      small == IF c > 0 THEN b ELSE a
      rest == BOddPart(BSub(big, small))
  IN IF c = 0 THEN a
     ELSE IF Len(rest) >= 0 THEN BGcdOdd(rest, small) ELSE <<>>

BGcd(a, b) ==
  IF a = <<>> THEN b
  ELSE IF b = <<>> THEN a
  ELSE LET za == BTrailingZeros(a)
           zb == BTrailingZeros(b)
       IN BShl(BGcdOdd(BShr(a, za), BShr(b, zb)), IF za < zb THEN za ELSE zb)

\* F of the value of v, v evaluated once
With(v, F(_)) == CHOOSE r \in {F(x) : x \in {v}} : TRUE

QZero == [s |-> 0, n |-> <<>>, d |-> <<1>>]

QReduced(s, n, d, g) ==
  IF g = <<1>> THEN [s |-> s, n |-> n, d |-> d]
  ELSE [s |-> s, n |-> BDivMod(n, g)[1], d |-> BDivMod(d, g)[1]]

QNorm(s, n, d) ==
  IF n = <<>> \/ s = 0 THEN QZero
  ELSE With(BGcd(n, d), LAMBDA g : QReduced(s, n, d, g))

QFromInt(i) ==
  IF i = 0 THEN QZero
  ELSE [s |-> IF i < 0 THEN -1 ELSE 1, n |-> BFromInt(Abs(i)), d |-> <<1>>]

\* the decimal literal i / 10^k
QDecimal(i, k) == QNorm(1, BFromInt(i), BShl(BFromInt(5 ^ k), k))

QNeg(a) == With(a, LAMBDA x : [x EXCEPT !.s = 0 - x.s])

QSum(a, b, x, y, d) ==
  LET c == BCmp(x, y)
  IN IF a.s = b.s THEN QNorm(a.s, BAdd(x, y), d)
     ELSE IF c = 0 THEN QZero
     ELSE IF c > 0 THEN QNorm(a.s, BSub(x, y), d)
     ELSE QNorm(b.s, BSub(y, x), d)

QAddValues(a, b) ==
  IF a.s = 0 THEN b
  ELSE IF b.s = 0 THEN a
  ELSE With(BMul(a.n, b.d), LAMBDA x :
       With(BMul(b.n, a.d), LAMBDA y :
       With(BMul(a.d, b.d), LAMBDA d : QSum(a, b, x, y, d))))

QAdd(a, b) == With(a, LAMBDA x : With(b, LAMBDA y : QAddValues(x, y)))

QSub(a, b) == With(a, LAMBDA x : With(b, LAMBDA y : QAddValues(x, [y EXCEPT !.s = 0 - y.s])))

QMulValues(a, b) ==
  With(BMul(a.n, b.n), LAMBDA n : With(BMul(a.d, b.d), LAMBDA d : QNorm(a.s * b.s, n, d)))

QMul(a, b) == With(a, LAMBDA x : With(b, LAMBDA y : QMulValues(x, y)))

\* a / b for b # 0
QDiv(a, b) ==
  With(a, LAMBDA x : With(b, LAMBDA y : QMulValues(x, [s |-> y.s, n |-> y.d, d |-> y.n])))

QLess(a, b) == QSub(a, b).s < 0

\* 2 ** k for an integer k
QPow2(k) ==
  IF k >= 0 THEN [s |-> 1, n |-> BShl(<<1>>, k), d |-> <<1>>]
  ELSE [s |-> 1, n |-> <<1>>, d |-> BShl(<<1>>, 0 - k)]

(***************************************************************************)
(* Vector, TrailLocation, Trail, PointMass                                  *)
(***************************************************************************)
Vector(x, y) == [x |-> x, y |-> y]

\* Vector.distanceTo
distanceTo(a, b) ==
  IF a.x = NaN \/ a.y = NaN \/ b.x = NaN \/ b.y = NaN THEN NaN
  ELSE ISqrt((a.x - b.x) * (a.x - b.x) + (a.y - b.y) * (a.y - b.y))

MAX_TRAILS == 150

\* a trail that never evicts
TrailAddUnbounded(points, point) == Append(points, point)

\* Trail.add
TrailAdd(points, point) ==
  LET pushed == Append(points, point)
  IN IF Len(pushed) > MAX_TRAILS THEN Tail(pushed) ELSE pushed

\* new PointMass() with the setters a factory applies
PointMass(mass, radius, position, velocity) ==
  [mass |-> mass, position |-> position, velocity |-> velocity,
   netForce |-> Vector(0, 0), radius |-> radius, trail |-> <<>>,
   locked |-> FALSE, uninteractable |-> FALSE]

\* PointMass.updateKinematics
updateKinematics(o, timeStep) ==
  LET accelerationX == NDiv(o.netForce.x, o.mass)
      accelerationY == NDiv(o.netForce.y, o.mass)
      velocityX == NAdd(o.velocity.x, NMul(accelerationX, timeStep))
      velocityY == NAdd(o.velocity.y, NMul(accelerationY, timeStep))
  IN [o EXCEPT !.velocity = Vector(velocityX, velocityY),
               !.position = Vector(NAdd(o.position.x, NMul(velocityX, timeStep)),
                                   NAdd(o.position.y, NMul(velocityY, timeStep)))]

(***************************************************************************)
(* The force pass of Simulation.updateObjects                               *)
(***************************************************************************)
G == 1 * Scale

\* a spring that takes the greater of the two masses
SpringForceOfGreaterMass(objectA, objectB, distance) ==
  LET deltaX == NSub(objectB.position.x, objectA.position.x)
      deltaY == NSub(objectB.position.y, objectA.position.y)
      nonCollidingDistance == NAdd(objectA.radius, objectB.radius)
  IN IF NLess(distance, nonCollidingDistance)
     THEN LET penetration == NSub(nonCollidingDistance, distance)
              greaterMass == 0 - NMin(0 - objectA.mass, 0 - objectB.mass)
              force == NMul(greaterMass, penetration)
          IN Vector(NMulDiv(force, NNeg(deltaX), distance),
                    NMulDiv(force, NNeg(deltaY), distance))
     ELSE Vector(0, 0)

\* the spring (penalty) force on objectA of the pair; (0, 0) when the pair
\* does not overlap.  cos(atan2(-dy, -dx)) is -dx / distance.
SpringForce(objectA, objectB, distance) ==
  LET deltaX == NSub(objectB.position.x, objectA.position.x)
      deltaY == NSub(objectB.position.y, objectA.position.y)
      nonCollidingDistance == NAdd(objectA.radius, objectB.radius)
  IN IF NLess(distance, nonCollidingDistance)
     THEN LET penetration == NSub(nonCollidingDistance, distance)
              lesserMass == NMin(objectA.mass, objectB.mass)
              acceleration == penetration
              force == NMul(lesserMass, acceleration)
          IN Vector(NMulDiv(force, NNeg(deltaX), distance),
                    NMulDiv(force, NNeg(deltaY), distance))
     ELSE Vector(0, 0)

\* the gravitational force on objectA of the pair
GravityForce(objectA, objectB, distance) ==
  LET deltaX == NSub(objectB.position.x, objectA.position.x)
      deltaY == NSub(objectB.position.y, objectA.position.y)
      gravityMagnitude ==
        IF distance = NaN \/ distance = 0 THEN NaN
        ELSE NMulDiv(NMul(NMul(G, objectA.mass), objectB.mass),
                     Scale * Scale, distance * distance)
  IN Vector(NMulDiv(deltaX, gravityMagnitude, distance),
            NMulDiv(deltaY, gravityMagnitude, distance))

\* a force pass that skips no pair
SkipNoPair(distance) == FALSE

\* "if (distance === 0) continue"
SkipPair(distance) == distance = 0

\* one iteration of the inner loop: the pair (a, b) of body ids
ApplyPair(p, a, b) ==
  LET distance == distanceTo(p[a].position, p[b].position)
  IN IF SkipPair(distance) THEN p
     ELSE LET spring == SpringForce(p[a], p[b], distance)
              gravity == GravityForce(p[a], p[b], distance)
              fA == Vector(NAdd(NAdd(p[a].netForce.x, spring.x), gravity.x),
                           NAdd(NAdd(p[a].netForce.y, spring.y), gravity.y))
              p1 == [p EXCEPT ![a].netForce = fA]
              fB == Vector(NSub(NSub(p1[b].netForce.x, spring.x), gravity.x),
                           NSub(NSub(p1[b].netForce.y, spring.y), gravity.y))
          IN [p1 EXCEPT ![b].netForce = fB]

RECURSIVE InnerLoop(_, _, _, _)
InnerLoop(p, objs, i, j) ==
  IF j > Len(objs) THEN p
  ELSE InnerLoop(ApplyPair(p, objs[i], objs[j]), objs, i, j + 1)

\* an outer loop that moves objectA before the inner loop over its partners
RECURSIVE OuterLoopMovingFirst(_, _, _, _)
OuterLoopMovingFirst(p, objs, i, timeStep) ==
  IF i > Len(objs) THEN p
  ELSE LET p1 == [p EXCEPT ![objs[i]] = updateKinematics(@, timeStep)]
           p2 == InnerLoop(p1, objs, i, i + 1)
       IN OuterLoopMovingFirst(p2, objs, i + 1, timeStep)

RECURSIVE OuterLoop(_, _, _, _)
OuterLoop(p, objs, i, timeStep) ==
  IF i > Len(objs) THEN p
  ELSE LET p1 == InnerLoop(p, objs, i, i + 1)
           p2 == [p1 EXCEPT ![objs[i]] = updateKinematics(@, timeStep)]
       IN OuterLoop(p2, objs, i + 1, timeStep)

InSeq(x, seq) == \E i \in 1..Len(seq) : seq[i] = x

\* "Forces are recalculated on every update"
ZeroForces(p, objs) ==
  [b \in DOMAIN p |->
     IF InSeq(b, objs) THEN [p[b] EXCEPT !.netForce = Vector(0, 0)] ELSE p[b]]

\* Simulation.updateObjects, on the bodies (the clock is advanced by next)
updateObjects(p, objs, timeStep) ==
  IF Len(objs) = 0 THEN p ELSE OuterLoop(ZeroForces(p, objs), objs, 1, timeStep)

RECURSIVE RunSteps(_, _, _, _)
RunSteps(p, objs, timeStep, n) ==
  IF n = 0 \/ Len(objs) = 0 THEN p    \* a step of an empty cache returns at once
  ELSE RunSteps(updateObjects(p, objs, timeStep), objs, timeStep, n - 1)

RECURSIVE FilterSeq(_, _)
FilterSeq(seq, keep) ==
  IF seq = <<>> THEN <<>>
  ELSE (IF Head(seq) \in keep THEN <<Head(seq)>> ELSE <<>>) \o FilterSeq(Tail(seq), keep)

\* a cache that keeps the locked bodies too
updateCachesKeepingLocked(objs, p) == objs

\* Simulation.updateCaches: this.objects.filter(i => !i.locked)
updateCaches(objs, p) == FilterSeq(objs, {b \in DOMAIN p : ~p[b].locked})

RECURSIVE TrailsLoop(_, _, _, _)
TrailsLoop(p, objs, i, stamp) ==
  IF i > Len(objs) THEN p
  ELSE LET o == p[objs[i]]
           point == [x |-> o.position.x, y |-> o.position.y, timestamp |-> stamp]
       IN TrailsLoop([p EXCEPT ![objs[i]].trail = TrailAdd(@, point)],
                     objs, i + 1, stamp)

\* trails that grow while the simulation is paused too
updateTrailsWhilePaused(p, objs, isRunning, stamp) == TrailsLoop(p, objs, 1, stamp)

\* Simulation.updateTrails
updateTrails(p, objs, isRunning, stamp) ==
  IF isRunning THEN TrailsLoop(p, objs, 1, stamp) ELSE p

(***************************************************************************)
(* The accumulation of the force pass in binary64, one component: net is    *)
(* netForce.x of the bodies of the cache, the spring and the gravity of a   *)
(* pair are the values the pair has computed.                               *)
(***************************************************************************)
\* the pairs (i, j), i < j, of a cache of n bodies in the order of the two loops
RECURSIVE PairsFrom(_, _, _)
PairsFrom(i, j, n) ==
  IF i >= n THEN <<>>
  ELSE IF j > n THEN PairsFrom(i + 1, i + 2, n)
  ELSE <<(<<i, j>>)>> \o PairsFrom(i, j + 1, n)

Pairs(n) == PairsFrom(1, 2, n)

\* an accumulation that gives the spring to objectA alone
ApplyForcesSpringOnAOnly(net, a, b, collides, spring, gravity) ==
  LET onA == IF collides THEN SAdd(net[a], spring) ELSE net[a]
  IN [net EXCEPT ![a] = SAdd(onA, gravity), ![b] = SSub(net[b], gravity)]

\* "objectA.netForce.x += springX; objectB.netForce.x -= springX" when the pair
\* collides, then "objectA.netForce.x += gravityX; objectB.netForce.x -= gravityX"
ApplyForces(net, a, b, collides, spring, gravity) ==
  LET onA == IF collides THEN SAdd(net[a], spring) ELSE net[a]
      onB == IF collides THEN SSub(net[b], spring) ELSE net[b]
  IN [net EXCEPT ![a] = SAdd(onA, gravity), ![b] = SSub(onB, gravity)]

\* the exact sum of net[i..Len(net)]
RECURSIVE XSum(_, _)
XSum(net, i) == IF i > Len(net) THEN SZero ELSE XSAdd(net[i], XSum(net, i + 1))

(***************************************************************************)
(* The camera, in exact arithmetic                                          *)
(***************************************************************************)
RECURSIVE BPow10(_)
BPow10(k) == IF k = 0 THEN <<1>> ELSE BMulSmall(BPow10(k - 1), 10)

\* the decimal literal (hi * 10^9 + lo) / 10^k
QDecimal2(hi, lo, k) ==
  QNorm(1, BAdd(BMul(BFromInt(hi), BPow10(9)), BFromInt(lo)), BPow10(k))

\* a grid Number as a rational
QFromGrid(v) == QDiv(QFromInt(v), QFromInt(Scale))

\* the integer a rational is, when it is one
QToInt(a) == a.s * BToInt(a.n)

\* the Numbers of the camera that are no rationals: Infinity and NaN
QInfinity == [s |-> 1, n |-> <<1>>, d |-> <<>>]

QNaN == [s |-> 0, n |-> <<>>, d |-> <<>>]

QFinite(a) == a.d # <<>>

VFinite(v) == QFinite(v.x) /\ QFinite(v.y)

\* clamp(value, min, Infinity): Math.max(min, Math.min(Infinity, value)), which is
\* NaN for NaN
clamp(value, min) ==
  With(value, LAMBDA lesser :      \* Math.min(Infinity, value)
    IF ~QFinite(lesser) THEN lesser
    ELSE IF QLess(lesser, min) THEN min ELSE lesser)

MIN_ZOOM == QDecimal(1, 6)

ZOOM_SPEED == QDecimal(1, 2)

getSimulationPointAtScreenPoint(ctr, zm, cv, clientX, clientY) ==
  LET canvasX == QFromInt(clientX - cv.left)
      canvasY == QFromInt(clientY - cv.top)
      fromCenterX == QSub(canvasX, QDiv(QFromInt(cv.baseWidth), QFromInt(2)))
      fromCenterY == QSub(canvasY, QDiv(QFromInt(cv.baseHeight), QFromInt(2)))
  IN IF zm = QNaN \/ ~VFinite(ctr) THEN Vector(QNaN, QNaN)
     ELSE IF zm = QInfinity THEN ctr            \* fromCenterX / Infinity is 0
     ELSE Vector(QAdd(ctr.x, QDiv(fromCenterX, zm)), QAdd(ctr.y, QDiv(fromCenterY, zm)))

\* new Rectangle(left, top, left + viewportWidth, top + viewportHeight)
Rectangle(left, top, viewportWidth, viewportHeight) ==
  [left |-> left, top |-> top,
   right |-> QAdd(left, viewportWidth), bottom |-> QAdd(top, viewportHeight)]

getSimulationViewport(ctr, zm, cv) ==
  With(QDiv(QFromInt(cv.baseWidth), zm), LAMBDA viewportWidth :
  With(QDiv(QFromInt(cv.baseHeight), zm), LAMBDA viewportHeight :
  With(QSub(ctr.x, QDiv(viewportWidth, QFromInt(2))), LAMBDA left :
  With(QSub(ctr.y, QDiv(viewportHeight, QFromInt(2))), LAMBDA top :
    Rectangle(left, top, viewportWidth, viewportHeight)))))

\* Rectangle.width, Rectangle.height
width(r) == QSub(r.right, r.left)

height(r) == QSub(r.bottom, r.top)

\* the range of binary64: 2 ** k is Infinity from k = 1024 on, and 0 down from
\* k = -1075
MaxBinaryExponent == 1024

MinBinaryExponent == -1075

\* "2 ** zoomAmount"
Pow2(k) ==
  IF k >= MaxBinaryExponent THEN QInfinity
  ELSE IF k <= MinBinaryExponent THEN QZero
  ELSE QPow2(k)

\* a product of positive rationals, Infinity from 2 ** 1024 on
Overflowed(x) ==
  LET bits == BBitLen(x.n) - BBitLen(x.d)
  IN IF bits < MaxBinaryExponent THEN x
     ELSE IF bits > MaxBinaryExponent + 1 THEN QInfinity
     ELSE IF QLess(x, QPow2(MaxBinaryExponent)) THEN x ELSE QInfinity

\* "this.zoom * (2 ** zoomAmount)": Infinity * 0 is NaN
ZoomTimes(a, b) ==
  IF a = QNaN \/ b = QNaN THEN QNaN
  ELSE IF a = QInfinity \/ b = QInfinity
       THEN (IF a = QZero \/ b = QZero THEN QNaN ELSE QInfinity)
  ELSE With(QMul(a, b), LAMBDA x : Overflowed(x))

\* "this.zoom = clamp(this.zoom * (2 ** zoomAmount), MIN_ZOOM, MAX_ZOOM)";
\* deltaY is a multiple of 100, so that 2 ** zoomAmount is a power of two
newZoomOf(zm, deltaY) ==
  LET zoomAmount == QMul(QNeg(QFromInt(deltaY)), ZOOM_SPEED)
  IN clamp(ZoomTimes(zm, Pow2(QToInt(zoomAmount))), MIN_ZOOM)

\* the new center, from the anchor, the new zoom and the new viewport
centerOf(point, newZoom, newViewport, screenDistanceToLeftEdge, screenDistanceToTop) ==
  LET newSimulationLeftEdge == QSub(point.x, QDiv(screenDistanceToLeftEdge, newZoom))
      newSimulationTop == QSub(point.y, QDiv(screenDistanceToTop, newZoom))
  IN Vector(QAdd(newSimulationLeftEdge, QDiv(width(newViewport), QFromInt(2))),
            QAdd(newSimulationTop, QDiv(height(newViewport), QFromInt(2))))

\* a zoom that places the new edges with the zoom it had before the wheel moved
zoomedKeepingOldScale(ctr, zm, cv, deltaY, screenX, screenY) ==
  With(getSimulationPointAtScreenPoint(ctr, zm, cv, screenX, screenY), LAMBDA point :
  With(newZoomOf(zm, deltaY), LAMBDA newZoom :
  With(getSimulationViewport(ctr, newZoom, cv), LAMBDA newViewport :
    [zoom |-> newZoom,
     center |-> centerOf(point, zm, newViewport, QFromInt(screenX - cv.left),
                         QFromInt(screenY - cv.top))])))

\* what Simulation.zoomBy leaves in zoom and center
zoomed(ctr, zm, cv, deltaY, screenX, screenY) ==
  With(getSimulationPointAtScreenPoint(ctr, zm, cv, screenX, screenY), LAMBDA point :
  With(newZoomOf(zm, deltaY), LAMBDA newZoom :
  IF newZoom = QNaN \/ ~VFinite(point)
  THEN [zoom |-> newZoom, center |-> Vector(QNaN, QNaN)]
  ELSE IF newZoom = QInfinity
  THEN \* the new viewport has no width, and the new edges are at the point
       [zoom |-> newZoom, center |-> point]
  ELSE
  With(getSimulationViewport(ctr, newZoom, cv), LAMBDA newViewport :
    [zoom |-> newZoom,
     center |-> centerOf(point, newZoom, newViewport, QFromInt(screenX - cv.left),
                         QFromInt(screenY - cv.top))])))

\* null
Null == 0

\* the first body of objs, in order, whose circle holds the position; null if none
RECURSIVE getObjectAtPoint(_, _, _)
getObjectAtPoint(p, objs, position) ==
  IF objs = <<>> THEN Null
  ELSE LET distance == distanceTo(p[Head(objs)].position, position)
       IN IF NLess(distance, p[Head(objs)].radius) THEN Head(objs)
          ELSE getObjectAtPoint(p, Tail(objs), position)

(***************************************************************************)
(* State                                                                    *)
(***************************************************************************)
VARIABLES
  objects,            \* Simulation.objects: body identities in insertion order
  unlockedObjects,    \* Simulation.unlockedObjects, set by updateCaches
  pm,                 \* the PointMass behind each identity
  updateRollover,     \* binary64
  updatesPerSecond,   \* binary64
  timeStep,           \* grid Number
  timestamp,          \* grid Number
  running,
  dirty,
  stepsExecuted,      \* how many times updateObjects has run
  deltaSum,           \* the exact sum of the deltaTimeSeconds given to next
  ticks,              \* calls of next so far
  edits,              \* calls of addObject, removeObject, reset, setMass so far
  center,             \* Simulation.center, a Vector of rationals
  zoom,               \* Simulation.zoom, a rational
  canvas,             \* rect.left, rect.top, baseWidth, baseHeight
  pass,               \* the force pass of a step taken pair by pair, in binary64
  pointer,            \* interacting, interactingObject, the drags under way, the time
  loop,               \* where the step under way is in the loops of updateObjects
  last                \* the last operation, its arguments and what it returned

vars == <<objects, unlockedObjects, pm, updateRollover, updatesPerSecond, timeStep,
          timestamp, running, dirty, stepsExecuted, deltaSum, ticks, edits, center,
          zoom, canvas, pass, pointer, loop, last>>

camera == <<center, zoom, canvas>>

\* bounds
NumBodies == 3

MaxTicks == 2

MaxEdits == 3

MaxSchedTicks == 6

Bodies == 1..NumBodies

\* wall-clock deltas in milliseconds, as the frame loop clamps them (0..30)
DeltaMs == {0, 30}

SchedDeltaMs == {0, 10, 16, 30}

\* "deltaTimeMS / 1000", for every clamped delta
DeltaTable == [ms \in 0..30 |-> DDiv(DFromInt(ms), DFromInt(1000))]

DeltaSeconds(ms) == DeltaTable[ms]

\* a Number given in sixtieths
Num(n, d) == RoundDiv(n * Scale, d)

\* where the third body of the pool is put: on top of the first, or apart
Placements ==
  { [position |-> Vector(Num(0, 1), Num(0, 1)), velocity |-> Vector(Num(0, 1), Num(0, 1))],
    [position |-> Vector(Num(9, 1), Num(12, 1)), velocity |-> Vector(Num(3, 1), Num(0, 1))] }

\* the module-level bodies the presets are made of, in the model's units
earth == PointMass(Num(60, 1), Num(10, 1), Vector(0, 0), Vector(0, 0))

moon ==
  PointMass(Num(2, 1), Num(2, 1), Vector(0, earth.radius + Num(30, 1)),
            Vector(Num(1, 1), 0))

iss ==
  PointMass(Num(1, 1), Num(1, 1), Vector(0, earth.radius + Num(4, 1)),
            Vector(Num(7, 1), 0))

projectile ==
  PointMass(Num(1, 1), Num(3, 1), Vector(0, 0 - iss.position.y), Vector(Num(1, 1), 0))

\* "Big Rock"
testObject ==
  PointMass(Num(10, 1), Num(2, 1), Vector(0, earth.radius + Num(20, 1)), Vector(0, 0))

\* the one body a preset adds as it is, not as a clone
smallProjectile == NumBodies + 1

smallProjectileMade ==
  PointMass(Num(1, 1), Num(1, 1), Vector(0, 0 - earth.radius - Num(1, 1)),
            Vector(Num(2, 1), Num(-15, 1)))

AllBodies == Bodies \cup {smallProjectile}

\* PointMass.clone
clone(o) ==
  [PointMass(o.mass, o.radius, o.position, o.velocity)
     EXCEPT !.uninteractable = o.uninteractable]

\* the bodies a caller has built and may add
Pool(placement, held) ==
  LET made == <<PointMass(Num(60, 1), Num(10, 1), Vector(0, 0), Vector(0, 0)),
                PointMass(Num(1, 1), Num(10, 1), Vector(Num(15, 1), 0),
                          Vector(0, Num(2, 1))),
                PointMass(Num(2, 1), Num(5, 1), placement.position,
                          placement.velocity)>>
  IN [b \in AllBodies |->
        LET o == IF b = smallProjectile THEN smallProjectileMade
                 ELSE IF b <= 3 THEN made[b]
                 ELSE PointMass(Num(1, 1), Num(1, 1),
                                Vector(Num(40 * b, 1), Num(30, 1)),
                                Vector(Num(0, 1), Num(1, 1)))
        IN [o EXCEPT !.locked = (b = held)]]

\* the canvas as updateCanvasSize may find it
CanvasSizes ==
  { [left |-> 0, top |-> 0, baseWidth |-> 300, baseHeight |-> 150],
    [left |-> 8, top |-> 16, baseWidth |-> 640, baseHeight |-> 480] }

DefaultCanvas == CHOOSE cv \in CanvasSizes : cv.left = 0

\* "this.zoom = 0.000006339726086728971"
ConstructorZoom == QDecimal2(6339726, 86728971, 21)

\* no drag is under way; now is performance.now(), in milliseconds
NoPointer ==
  [interacting |-> FALSE, interactingObject |-> Null, sessions |-> <<>>, now |-> 0,
   events |-> 0, mouseClientX |-> 0, mouseClientY |-> 0]

\* no step is under way
NoLoop ==
  [active |-> FALSE, stepping |-> FALSE, ms |-> 0, steps |-> 0, remaining |-> 0,
   i |-> 0, j |-> 0, integrated |-> {}, done |-> {}, tickStart |-> <<>>,
   stepStart |-> <<>>]

\* the Simulation constructor
Constructed ==
  /\ pointer = NoPointer
  /\ loop = NoLoop
  /\ objects = <<>>
  /\ unlockedObjects = <<>>
  /\ updateRollover = DZero
  /\ updatesPerSecond = DFromInt(60)
  /\ timeStep = Num(1, 60)
  /\ timestamp = 0
  /\ running = TRUE
  /\ dirty = TRUE
  /\ stepsExecuted = 0
  /\ deltaSum = DZero
  /\ ticks = 0
  /\ edits = 0
  /\ center = Vector(QZero, QZero)
  /\ zoom = ConstructorZoom
  /\ last = [op |-> "constructor"]

\* no force pass is followed pair by pair
NoPass == [n |-> 0, net |-> <<>>, pair |-> 0]

Init ==
  /\ Constructed
  /\ pass = NoPass
  /\ canvas = DefaultCanvas
  /\ \E placement \in Placements, held \in {Null, 2, 3} : pm = Pool(placement, held)

(***************************************************************************)
(* Operations                                                               *)
(***************************************************************************)
\* a membership test that looks at the newest element only
includesLast(objs, object) == objs # <<>> /\ objs[Len(objs)] = object

\* Array.prototype.includes, on identities
includes(objs, object) == InSeq(object, objs)

\* Simulation.addObject
addObject(object) ==
  /\ edits < MaxEdits
  /\ edits' = edits + 1
  /\ IF includes(objects, object)
     THEN /\ last' = [op |-> "addObject", object |-> object,
                      error |-> "Object already in simulation"]
          /\ UNCHANGED <<objects, dirty>>
     ELSE /\ objects' = Append(objects, object)
          /\ dirty' = TRUE
          /\ last' = [op |-> "addObject", object |-> object, error |-> ""]
  /\ UNCHANGED <<pass, pointer, loop, unlockedObjects, pm, updateRollover, updatesPerSecond, timeStep,
                 timestamp, running, stepsExecuted, deltaSum, ticks, camera>>

\* a removal that removes nothing
WithoutNothing(objs, object) == objs

\* a removal by splice(indexOf(object), 1): an index of -1 takes the last element
WithoutBySplice(objs, object) ==
  IF InSeq(object, objs) THEN FilterSeq(objs, AllBodies \ {object})
  ELSE IF objs = <<>> THEN objs
  ELSE SubSeq(objs, 1, Len(objs) - 1)

\* this.objects.filter(i => i !== object)
Without(objs, object) == FilterSeq(objs, AllBodies \ {object})

\* Simulation.removeObject
removeObject(object) ==
  /\ edits < MaxEdits
  /\ edits' = edits + 1
  /\ objects' = Without(objects, object)
  /\ dirty' = TRUE
  /\ last' = [op |-> "removeObject", object |-> object, error |-> ""]
  /\ UNCHANGED <<pass, pointer, loop, unlockedObjects, pm, updateRollover, updatesPerSecond, timeStep,
                 timestamp, running, stepsExecuted, deltaSum, ticks, camera>>

\* Simulation.reset: "this.objects.length = []" empties the array
reset ==
  /\ edits < MaxEdits
  /\ edits' = edits + 1
  /\ objects' = <<>>
  /\ dirty' = TRUE
  /\ last' = [op |-> "reset", error |-> ""]
  /\ UNCHANGED <<pass, pointer, loop, unlockedObjects, pm, updateRollover, updatesPerSecond, timeStep,
                 timestamp, running, stepsExecuted, deltaSum, ticks, camera>>

\* a clock that moves by one timeStep in every tick
timestampAfterTick(stamp, steps, step) == stamp + step

\* "this.timestamp += this.timeStep", once in each of the steps of a tick
timestampAfter(stamp, steps, step) == stamp + steps * step

\* Simulation.render, as far as the state goes: the dirty flag
render(isDirty, hidden) == IF hidden THEN isDirty ELSE FALSE

\* Simulation.next(deltaTimeSeconds), with document.hidden as the tick finds it
next(ms, hidden, maxTicks) ==
  LET deltaTimeSeconds == DeltaSeconds(ms)
      stepsToPerform == DAdd(DMul(deltaTimeSeconds, updatesPerSecond), updateRollover)
      \* "i < Math.floor(stepsToPerform)" is false at once when that is NaN
      steps == IF running /\ DIsFinite(stepsToPerform) THEN DFloor(stepsToPerform)
               ELSE 0
      cache == IF running THEN updateCaches(objects, pm) ELSE unlockedObjects
      stamp == timestampAfter(timestamp, steps, timeStep)
      stepped == RunSteps(pm, cache, timeStep, steps)
      isDirty == dirty \/ (steps > 0 /\ Len(cache) > 0)
  IN /\ ticks < maxTicks
     \* the loop up to Infinity never ends: next does not return
     /\ ~(running /\ stepsToPerform = DInfinity)
     /\ ticks' = ticks + 1
     /\ updateRollover' = IF running THEN DMod1(stepsToPerform) ELSE updateRollover
     /\ unlockedObjects' = cache
     /\ timestamp' = stamp
     /\ stepsExecuted' = stepsExecuted + steps
     /\ deltaSum' = XAdd(deltaSum, deltaTimeSeconds)
     /\ pm' = updateTrails(stepped, objects, running, stamp)
     /\ dirty' = render(isDirty, hidden)
     /\ last' = [op |-> "next", ms |-> ms, steps |-> steps, hidden |-> hidden]
     /\ UNCHANGED <<pass, pointer, loop, objects, updatesPerSecond, timeStep, running, edits, camera>>

Next ==
  \/ \E b \in Bodies : addObject(b)
  \/ \E b \in Bodies : removeObject(b)
  \/ reset
  \/ \E ms \in DeltaMs, hidden \in BOOLEAN : next(ms, hidden, MaxTicks)

Spec == Init /\ [][Next]_vars

\* the scheduler alone: ticks of an empty simulation
SchedInit ==
  /\ Constructed
  /\ pass = NoPass
  /\ canvas = DefaultCanvas
  /\ pm = Pool(CHOOSE q \in Placements : TRUE, Null)

SchedNext == \E ms \in SchedDeltaMs, hidden \in BOOLEAN : next(ms, hidden, MaxSchedTicks)

SpecSched == SchedInit /\ [][SchedNext]_vars

(***************************************************************************)
(* Camera operations, presets, picking                                      *)
(***************************************************************************)
MaxCameraOps == 2

\* wheel deltas: notches of 100, towards and away
WheelDeltas == {-100, 300}

ScreenPoints == {<<8, 16>>, <<297, 40>>}

Movements == {<<-3, 4>>}

\* Simulation.zoomBy
zoomBy(deltaY, screenX, screenY) ==
  \E z \in {zoomed(center, zoom, canvas, deltaY, screenX, screenY)} :
     /\ edits < MaxCameraOps
     /\ edits' = edits + 1
     /\ zoom' = z.zoom
     /\ center' = z.center
     /\ dirty' = TRUE
     /\ last' = [op |-> "zoomBy", deltaY |-> deltaY, screenX |-> screenX,
                 screenY |-> screenY,
                 point |-> getSimulationPointAtScreenPoint(center, zoom, canvas,
                                                           screenX, screenY),
                 zoom |-> zoom]
     /\ UNCHANGED <<pass, pointer, loop, objects, unlockedObjects, pm, updateRollover, updatesPerSecond,
                    timeStep, timestamp, running, stepsExecuted, deltaSum, ticks, canvas>>

\* the center after Simulation.panBy
panned(ctr, zm, screenMovementX, screenMovementY) ==
  IF zm = QNaN \/ ~VFinite(ctr) THEN Vector(QNaN, QNaN)
  ELSE IF zm = QInfinity THEN ctr
  ELSE Vector(QSub(ctr.x, QDiv(QFromInt(screenMovementX), zm)),
              QSub(ctr.y, QDiv(QFromInt(screenMovementY), zm)))

\* Simulation.panBy
panBy(screenMovementX, screenMovementY) ==
  /\ edits < MaxCameraOps
  /\ edits' = edits + 1
  /\ center' = panned(center, zoom, screenMovementX, screenMovementY)
  /\ dirty' = TRUE
  /\ last' = [op |-> "panBy"]
  /\ UNCHANGED <<pass, pointer, loop, objects, unlockedObjects, pm, updateRollover, updatesPerSecond,
                 timeStep, timestamp, running, stepsExecuted, deltaSum, ticks, zoom,
                 canvas>>

\* Simulation.updateCanvasSize, on a resize of the window
updateCanvasSize(cv) ==
  /\ edits < MaxCameraOps
  /\ edits' = edits + 1
  /\ canvas' = cv
  /\ dirty' = TRUE
  /\ last' = [op |-> "updateCanvasSize"]
  /\ UNCHANGED <<pass, pointer, loop, objects, unlockedObjects, pm, updateRollover, updatesPerSecond,
                 timeStep, timestamp, running, stepsExecuted, deltaSum, ticks, center,
                 zoom>>

PresetNames == {"earth", "collision", "projectile", "none"}

\* the bodies a preset adds, in order; its clones take the identities 1, 2, 3
PresetObjects(name) ==
  CASE name = "earth" -> <<1, 2, 3>>
    [] name = "collision" -> <<1, 2, 3>>
    [] name = "projectile" -> <<1, smallProjectile>>
    [] OTHER -> <<>>

\* the bodies after the preset has made its clones
PresetBodies(p, name) ==
  CASE name = "earth" ->
         [p EXCEPT ![1] = clone(earth), ![2] = clone(moon), ![3] = clone(iss)]
    [] name = "collision" ->
         [p EXCEPT ![1] = clone(earth), ![2] = clone(iss), ![3] = clone(projectile)]
    [] name = "projectile" ->
         [p EXCEPT ![1] = [clone(earth) EXCEPT !.mass = NMul(earth.mass, Num(5, 1000)),
                                               !.uninteractable = TRUE]]
    [] OTHER -> p

\* the zoom a preset sets
PresetZoom ==
  [name \in {"earth", "collision", "projectile"} |->
     CASE name = "earth" -> QDecimal2(1908570, 414305176, 20)
       [] name = "collision" -> QDecimal2(1197947, 197424044, 19)
       [] name = "projectile" -> QDecimal(1, 1)]

\* the center a preset sets
PresetCenter(p, name) ==
  CASE name = "earth" -> Vector(QFromGrid(earth.position.x), QFromGrid(earth.position.y))
    [] name = "collision" -> Vector(QFromGrid(NMul(earth.radius, Num(3, 10))),
                                    QFromGrid(0 - earth.radius))
    [] name = "projectile" -> Vector(QFromGrid(p[smallProjectile].position.x),
                                     QFromGrid(p[smallProjectile].position.y))

RECURSIVE AddAll(_, _)
AddAll(objs, added) ==
  IF added = <<>> THEN objs
  ELSE AddAll(IF includes(objs, Head(added)) THEN objs ELSE Append(objs, Head(added)),
              Tail(added))

\* Simulation.loadPreset: reset, then an addObject for each body of the preset
loadPreset(name, maxEdits) ==
  /\ edits < maxEdits
  /\ edits' = edits + 1
  /\ objects' = AddAll(<<>>, PresetObjects(name))
  /\ pm' = PresetBodies(pm, name)
  /\ dirty' = TRUE
  /\ center' = IF name \in DOMAIN PresetZoom THEN PresetCenter(pm, name) ELSE center
  /\ zoom' = IF name \in DOMAIN PresetZoom THEN PresetZoom[name] ELSE zoom
  /\ last' = [op |-> "loadPreset", name |-> name, error |-> ""]
  /\ UNCHANGED <<pass, pointer, loop, unlockedObjects, updateRollover, updatesPerSecond, timeStep,
                 timestamp, running, stepsExecuted, deltaSum, ticks, canvas>>

\* points a caller may pick at
PickPoints ==
  {Vector(Num(0, 1), Num(0, 1)), Vector(Num(20, 1), Num(0, 1)),
   Vector(Num(25, 1), Num(0, 1)), Vector(Num(100, 1), Num(100, 1))}

\* a call of Simulation.getObjectAtPoint
pick(position) ==
  /\ last' = [op |-> "getObjectAtPoint", position |-> position,
              result |-> getObjectAtPoint(pm, objects, position), error |-> ""]
  /\ UNCHANGED <<pass, pointer, loop, objects, unlockedObjects, pm, updateRollover, updatesPerSecond,
                 timeStep, timestamp, running, dirty, stepsExecuted, deltaSum, ticks,
                 edits, camera>>

CameraInit ==
  /\ Constructed
  /\ pass = NoPass
  /\ canvas \in CanvasSizes
  /\ pm = Pool(CHOOSE q \in Placements : TRUE, Null)

CameraNext ==
  \/ \E deltaY \in WheelDeltas, at \in ScreenPoints : zoomBy(deltaY, at[1], at[2])
  \/ \E by \in Movements : panBy(by[1], by[2])
  \/ \E cv \in CanvasSizes : updateCanvasSize(cv)
  \/ \E name \in PresetNames : loadPreset(name, MaxCameraOps)

SpecCamera == CameraInit /\ [][CameraNext]_vars

\* wheel deltas beyond the range of 2 ** zoomAmount, and a notch
FarWheelDeltas == {-110000, -100, 110000}

ZoomNext ==
  \/ \E deltaY \in FarWheelDeltas, at \in ScreenPoints : zoomBy(deltaY, at[1], at[2])
  \/ \E by \in Movements : panBy(by[1], by[2])
  \/ \E name \in PresetNames : loadPreset(name, MaxCameraOps)

SpecZoom == CameraInit /\ [][ZoomNext]_vars

\* the body set alone: no tick runs
SetNext ==
  \/ \E b \in AllBodies : addObject(b)
  \/ \E b \in AllBodies : removeObject(b)
  \/ reset
  \/ \E name \in PresetNames : loadPreset(name, MaxEdits)
  \/ \E position \in PickPoints : pick(position)

SpecSet == Init /\ [][SetNext]_vars

\* masses a caller may give
Masses == {Num(-1, 1), Num(0, 1), Num(2, 1)}

\* PointMass.setMass, on a body of the pool
setMass(object, mass) ==
  /\ edits < MaxEdits
  /\ edits' = edits + 1
  /\ pm' = [pm EXCEPT ![object].mass = mass]
  /\ last' = [op |-> "setMass", object |-> object, mass |-> mass, error |-> ""]
  /\ UNCHANGED <<pass, pointer, loop, objects, unlockedObjects, updateRollover, updatesPerSecond, timeStep,
                 timestamp, running, dirty, stepsExecuted, deltaSum, ticks, camera>>

MassNext ==
  \/ \E b \in Bodies : addObject(b)
  \/ \E b \in Bodies, mass \in Masses : setMass(b, mass)
  \/ \E ms \in DeltaMs : next(ms, FALSE, MaxTicks)

SpecMass == Init /\ [][MassNext]_vars

(***************************************************************************)
(* A long run of one body, for its trail                                    *)
(***************************************************************************)
MaxTrailTicks == 153

\* the body is added before the first tick, then the frames follow one another
TrailNext ==
  \/ ticks = 0 /\ addObject(2)
  \/ next(16, FALSE, MaxTrailTicks)

SpecTrail == Init /\ [][TrailNext]_vars

(***************************************************************************)
(* Speed, pause, resume                                                     *)
(***************************************************************************)
MaxSpeedChanges == 2

MaxSpeedTicks == 3

\* the exponent from which 1.5 ** exponent is Infinity
OverflowExponent == 1751

\* exponents, in halves: -18, -1, 0, 1, 1.5, 18 and 1751
Exponents == {-36, -2, 0, 2, 3, 36, 2 * OverflowExponent}

\* 0x1D64D51E0DB1C5 * 2^-52 = 1.8371173070873834, the binary64 value below
\* 1.5 ** 1.5; the next one is above it
BelowPower == BAdd(BShl(BFromInt(30821713), 28), BFromInt(235778501))

\* 1.5 ** Math.abs(exponentialSpeed), the exponent given in halves: exact for
\* the whole exponents (3^k / 2^k), either neighbour of the true value for 1.5,
\* which Math.pow is not held to round correctly
Power(halves) ==
  IF Abs(halves) >= 2 * OverflowExponent THEN {DInfinity}
  ELSE IF Abs(halves) % 2 = 0
  THEN {DRound(BFromInt(3 ^ (Abs(halves) \div 2)), 0 - (Abs(halves) \div 2))}
  ELSE {DRound(BelowPower, -52), DRound(BAdd(BelowPower, <<1>>), -52)}

\* Math.sign(exponentialSpeed) || 1
SignOr1(halves) == IF halves < 0 THEN -1 ELSE 1

\* the binary64 value of a timeStep of the grid: 0.05 and 0.1 are 3/60 and 6/60
TimeStepValue(step) == DDiv(DFromInt(Abs(step)), DFromInt(Scale))

\* a choice of timeStep that never takes the greater one
TimeStepAlwaysSmall(speedRelativeToRealtime) == Num(5, 100)

\* the timeStep setExponentialSpeed picks, before the sign
TimeStepFor(speedRelativeToRealtime) ==
  IF DExceeds(speedRelativeToRealtime, 1000) THEN Num(1, 10) ELSE Num(5, 100)

\* Simulation.setExponentialSpeed
setExponentialSpeed(halves, speedRelativeToRealtime) ==
  /\ edits < MaxSpeedChanges
  /\ edits' = edits + 1
  /\ timeStep' = TimeStepFor(speedRelativeToRealtime) * SignOr1(halves)
  /\ updatesPerSecond' =
       DDiv(speedRelativeToRealtime, TimeStepValue(TimeStepFor(speedRelativeToRealtime)))
  /\ last' = [op |-> "setExponentialSpeed", halves |-> halves,
              speed |-> speedRelativeToRealtime]
  /\ UNCHANGED <<pass, pointer, loop, objects, unlockedObjects, pm, updateRollover, timestamp,
                 running, dirty, stepsExecuted, deltaSum, ticks, camera>>

\* Simulation.pause
pause(maxEdits) ==
  /\ edits < maxEdits
  /\ edits' = edits + 1
  /\ running' = FALSE
  /\ last' = [op |-> "pause"]
  /\ UNCHANGED <<pass, pointer, loop, objects, unlockedObjects, pm, updateRollover, updatesPerSecond,
                 timeStep, timestamp, dirty, stepsExecuted, deltaSum, ticks, camera>>

\* Simulation.resume
resume(maxEdits) ==
  /\ edits < maxEdits
  /\ edits' = edits + 1
  /\ running' = TRUE
  /\ last' = [op |-> "resume"]
  /\ UNCHANGED <<pass, pointer, loop, objects, unlockedObjects, pm, updateRollover, updatesPerSecond,
                 timeStep, timestamp, dirty, stepsExecuted, deltaSum, ticks, camera>>

SpeedNext ==
  \/ \E halves \in Exponents :
       \E speedRelativeToRealtime \in Power(halves) :
         setExponentialSpeed(halves, speedRelativeToRealtime)
  \/ pause(MaxSpeedChanges)
  \/ resume(MaxSpeedChanges)
  \/ \E ms \in DeltaMs : next(ms, FALSE, MaxSpeedTicks)

SpecSpeed == SchedInit /\ [][SpeedNext]_vars

(***************************************************************************)
(* Pausing a simulation of some bodies                                      *)
(***************************************************************************)
MaxPauseEdits == 4

\* Simulation.toggleRunning
toggleRunning(maxEdits) == IF running THEN pause(maxEdits) ELSE resume(maxEdits)

PauseNext ==
  \/ \E b \in {1, 2} : addObject(b)
  \/ pause(MaxPauseEdits)
  \/ resume(MaxPauseEdits)
  \/ toggleRunning(MaxPauseEdits)
  \/ \E hidden \in BOOLEAN : next(30, hidden, MaxTicks)

SpecPause == SchedInit /\ [][PauseNext]_vars

(***************************************************************************)
(* The force pass, pair by pair                                             *)
(***************************************************************************)
\* how many unlocked bodies the pass runs on
PassSizes == {2, 3}

\* x components a pair may compute: 1, 2^-53 and -3 * 2^-54
Forces ==
  {Signed(1, DRound(<<1>>, 0)), Signed(1, DRound(<<1>>, -53)),
   Signed(-1, DRound(<<3>>, -54))}

\* the first loop of updateObjects: the net forces are set to 0
zeroForces ==
  /\ pass.pair = Len(Pairs(pass.n))
  /\ pass' = [pass EXCEPT !.net = [i \in 1..pass.n |-> SZero], !.pair = 0]
  /\ last' = [op |-> "zeroForces"]
  /\ UNCHANGED <<pointer, loop, objects, unlockedObjects, pm, updateRollover,
                 updatesPerSecond, timeStep, timestamp, running, dirty, stepsExecuted,
                 deltaSum, ticks, edits, camera>>

\* one iteration of the inner loop, on the next pair: what the pair adds to the
\* two net forces
accumulate(collides, spring, gravity) ==
  /\ pass.pair < Len(Pairs(pass.n))
  /\ LET pair == Pairs(pass.n)[pass.pair + 1]
     IN pass' = [pass EXCEPT !.net = ApplyForces(@, pair[1], pair[2], collides,
                                                  spring, gravity),
                              !.pair = @ + 1]
  /\ last' = [op |-> "accumulate", collides |-> collides]
  /\ UNCHANGED <<pointer, loop, objects, unlockedObjects, pm, updateRollover,
                 updatesPerSecond, timeStep, timestamp, running, dirty, stepsExecuted,
                 deltaSum, ticks, edits, camera>>

ForcesInit ==
  /\ Constructed
  /\ canvas = DefaultCanvas
  /\ pm = Pool(CHOOSE q \in Placements : TRUE, Null)
  /\ \E n \in PassSizes : pass = [n |-> n, net |-> [i \in 1..n |-> SZero], pair |-> 0]

ForcesNext ==
  \/ zeroForces
  \/ \E collides \in BOOLEAN, spring \in Forces, gravity \in Forces :
       accumulate(collides, IF collides THEN spring ELSE SZero, gravity)

SpecForces == ForcesInit /\ [][ForcesNext]_vars

(***************************************************************************)
(* Dragging: the mousedown, mousemove and mouseup listeners, and Fling      *)
(***************************************************************************)
MaxPointerEvents == 4

\* how many mousedown listeners may have a drag under way at once: a second
\* button can go down before the first is released
MaxSessions == 2

\* "this.period = 0.075", in milliseconds as minimumTimeThreshold uses it
period == 75

\* the grid Number nearest to a rational
QToGrid(a) == a.s * RoundDiv(BToInt(a.n) * Scale, BToInt(a.d))

\* Simulation.getObjectAtScreenPoint
getObjectAtScreenPoint(p, objs, ctr, zm, cv, clientX, clientY) ==
  IF objs = <<>> THEN Null
  ELSE \* the point is the same for every body of the loop
       CHOOSE found \in
         {getObjectAtPoint(p, objs, Vector(QToGrid(at.x), QToGrid(at.y))) :
            at \in {getSimulationPointAtScreenPoint(ctr, zm, cv, clientX, clientY)}} : TRUE

\* the sum of one component over the samples
RECURSIVE SumOf(_, _)
SumOf(history, component) ==
  IF history = <<>> THEN 0
  ELSE history[1][component] + SumOf(Tail(history), component)

\* the history.filter of calculateVelocity
relevantHistory(history, now) ==
  LET minimumTime == now - period
  IN SelectSeq(history, LAMBDA i : i.time >= minimumTime)

\* "(sumX / realPeriod) || 0", then "/ zoom": realPeriod is now - oldestTime, two
\* values of performance.now(), which are milliseconds. x / 0 is an Infinity and
\* 0 / 0 is NaN, which "|| 0" makes 0
PerRealPeriod(sum, realPeriod, zm) ==
  IF realPeriod = 0 THEN (IF sum = 0 THEN 0 ELSE NaN)
  ELSE QToGrid(QDiv(QDiv(QFromInt(sum), QFromInt(realPeriod)), zm))

\* Fling.calculateVelocity
calculateVelocity(history, now, zm) ==
  LET relevant == relevantHistory(history, now)
  IN IF relevant = <<>> THEN Vector(0, 0)
     ELSE LET realPeriod == now - relevant[1].time
          IN Vector(PerRealPeriod(SumOf(relevant, "x"), realPeriod, zm),
                    PerRealPeriod(SumOf(relevant, "y"), realPeriod, zm))

\* a release that leaves the body as the drag held it
releasedStillLocked(o, velocity) ==
  [o EXCEPT !.velocity = velocity, !.netForce = Vector(0, 0)]

\* what the mouseup listener does to the body it dragged
released(o, velocity) ==
  [o EXCEPT !.velocity = velocity, !.netForce = Vector(0, 0), !.locked = FALSE]

\* Simulation.moveObjectBy
movedBy(o, zm, screenMovementX, screenMovementY) ==
  [o EXCEPT !.position =
     Vector(NAdd(o.position.x, QToGrid(QDiv(QFromInt(screenMovementX), zm))),
            NAdd(o.position.y, QToGrid(QDiv(QFromInt(screenMovementY), zm))))]

\* the mousedown listener of the canvas
mousedown(clientX, clientY) ==
  \E objectAtPoint \in {getObjectAtScreenPoint(pm, objects, center, zoom, canvas,
                                               clientX, clientY)} :
    /\ pointer.events < MaxPointerEvents
    /\ Len(pointer.sessions) < MaxSessions
    /\ IF objectAtPoint # Null /\ pm[objectAtPoint].uninteractable
       THEN /\ pointer' = [pointer EXCEPT !.events = @ + 1]
            /\ last' = [op |-> "mousedown", object |-> objectAtPoint,
                        listening |-> FALSE]
            /\ UNCHANGED <<pm, dirty>>
       ELSE /\ pointer' = [pointer EXCEPT
                             !.events = @ + 1,
                             !.interacting = TRUE,
                             !.interactingObject = objectAtPoint,
                             !.sessions = Append(@, [object |-> objectAtPoint,
                                                     history |-> <<>>])]
            /\ pm' = IF objectAtPoint # Null
                     THEN [pm EXCEPT ![objectAtPoint].locked = TRUE]
                     ELSE pm
            /\ dirty' = (dirty \/ objectAtPoint # Null)
            /\ last' = [op |-> "mousedown", object |-> objectAtPoint,
                        listening |-> TRUE]
    /\ UNCHANGED <<pass, loop, objects, unlockedObjects, updateRollover,
                   updatesPerSecond, timeStep, timestamp, running, stepsExecuted,
                   deltaSum, ticks, edits, camera>>

\* the mousemove listeners of the drags under way, in the order they were added
RECURSIVE MoveAll(_, _, _, _, _)
MoveAll(state, sessions, zm, movementX, movementY) ==
  IF sessions = <<>> THEN state
  ELSE LET object == Head(sessions).object
           after ==
             IF object = Null
             THEN [state EXCEPT !.center = panned(@, zm, movementX, movementY)]
             ELSE [state EXCEPT !.pm[object] = movedBy(@, zm, movementX, movementY)]
       IN MoveAll(after, Tail(sessions), zm, movementX, movementY)

\* a mousemove over the canvas, elapsed milliseconds after the event before it:
\* the listener of the canvas keeps where the pointer is, and the listeners that
\* the drags under way have put on the window move what they hold
mousemove(movementX, movementY, clientX, clientY, elapsed) ==
  \E now \in {pointer.now + elapsed} :
  \E after \in {MoveAll([pm |-> pm, center |-> center], pointer.sessions, zoom,
                        movementX, movementY)} :
    /\ pointer.events < MaxPointerEvents
    /\ pointer' = [pointer EXCEPT
                     !.events = @ + 1,
                     !.now = now,
                     !.mouseClientX = clientX,
                     !.mouseClientY = clientY,
                     !.sessions = [k \in 1..Len(@) |->
                                     [@[k] EXCEPT !.history =
                                        Append(@, [x |-> movementX, y |-> movementY,
                                                   time |-> now])]]]
    /\ pm' = after.pm
    /\ center' = after.center
    /\ dirty' = (dirty \/ pointer.sessions # <<>>)
    /\ last' = [op |-> "mousemove", movementX |-> movementX, movementY |-> movementY]
    /\ UNCHANGED <<pass, loop, objects, unlockedObjects, updateRollover,
                   updatesPerSecond, timeStep, timestamp, running, stepsExecuted,
                   deltaSum, ticks, edits, zoom, canvas>>

\* the mouseup listeners of the drags under way, in the order they were added
RECURSIVE ReleaseAll(_, _, _, _)
ReleaseAll(p, sessions, now, zm) ==
  IF sessions = <<>> THEN p
  ELSE LET object == Head(sessions).object
           after ==
             IF object = Null THEN p
             ELSE [p EXCEPT ![object] =
                     released(@, calculateVelocity(Head(sessions).history, now, zm))]
       IN ReleaseAll(after, Tail(sessions), now, zm)

\* a mouseup on the window, elapsed milliseconds after the event before it
mouseup(elapsed) ==
  \E now \in {pointer.now + elapsed} :
    /\ pointer.events < MaxPointerEvents
    /\ pointer.sessions # <<>>
    /\ pointer' = [pointer EXCEPT !.events = @ + 1, !.now = now,
                                  !.interacting = FALSE, !.sessions = <<>>]
    /\ pm' = ReleaseAll(pm, pointer.sessions, now, zoom)
    /\ dirty' = (dirty \/ \E k \in 1..Len(pointer.sessions) :
                            pointer.sessions[k].object # Null)
    /\ last' = [op |-> "mouseup", sessions |-> pointer.sessions, now |-> now]
    /\ UNCHANGED <<pass, loop, objects, unlockedObjects, updateRollover,
                   updatesPerSecond, timeStep, timestamp, running, stepsExecuted,
                   deltaSum, ticks, edits, camera>>

\* the body the keys 1 to 4 make a clone of
Templates(p) ==
  [k \in {"1", "2", "3", "4"} |->
     CASE k = "1" -> testObject
       [] k = "2" -> earth
       [] k = "3" -> moon
       [] k = "4" -> p[smallProjectile]]

\* Simulation.isSafeToSpawnObject: a distance of NaN is not "<=" anything
isSafeToSpawnObject(p, objs, newObject) ==
  \A i \in 1..Len(objs) :
    \A distance \in {distanceTo(p[objs[i]].position, newObject.position)} :
      ~(distance # NaN /\ distance <= p[objs[i]].radius + newObject.radius)

\* the identities no reference is held to: a clone is a new object
Unused == {b \in AllBodies : /\ ~InSeq(b, objects)
                             /\ b # pointer.interactingObject
                             /\ \A k \in 1..Len(pointer.sessions) :
                                  pointer.sessions[k].object # b}

\* the keydown listener of the document
keydown(key) ==
  \E activeObject \in
       {IF pointer.interactingObject # Null THEN pointer.interactingObject
        ELSE getObjectAtScreenPoint(pm, objects, center, zoom, canvas,
                                    pointer.mouseClientX, pointer.mouseClientY)} :
    /\ pointer.events < MaxPointerEvents
    /\ pointer' = [pointer EXCEPT !.events = @ + 1]
    /\ IF activeObject # Null /\ key \in {"Delete", "Backspace"}
       THEN /\ objects' = Without(objects, activeObject)
            /\ dirty' = TRUE
            /\ last' = [op |-> "keydown", key |-> key, removed |-> activeObject,
                        added |-> Null]
            /\ UNCHANGED pm
       ELSE IF key \in DOMAIN Templates(pm)
       THEN \E at \in {getSimulationPointAtScreenPoint(center, zoom, canvas,
                                                       pointer.mouseClientX,
                                                       pointer.mouseClientY)} :
            \E newObject \in
                 {[clone(Templates(pm)[key]) EXCEPT
                     !.position = Vector(QToGrid(at.x), QToGrid(at.y)),
                     !.velocity = Vector(0, 0)]} :
              IF isSafeToSpawnObject(pm, objects, newObject)
              THEN \E b \in Unused :
                     /\ \A other \in Unused : b <= other
                     /\ pm' = [pm EXCEPT ![b] = newObject]
                     /\ objects' = Append(objects, b)
                     /\ dirty' = TRUE
                     /\ last' = [op |-> "keydown", key |-> key, removed |-> Null,
                                 added |-> b]
              ELSE \* the status message "won't fit"
                   /\ last' = [op |-> "keydown", key |-> key, removed |-> Null,
                               added |-> Null]
                   /\ UNCHANGED <<pm, objects, dirty>>
       ELSE /\ last' = [op |-> "keydown", key |-> key, removed |-> Null,
                        added |-> Null]
            /\ UNCHANGED <<pm, objects, dirty>>
    /\ UNCHANGED <<pass, loop, unlockedObjects, updateRollover, updatesPerSecond,
                   timeStep, timestamp, running, stepsExecuted, deltaSum, ticks,
                   edits, camera>>

\* where the pointer goes down on the canvas of 300 by 150 once the projectile
\* preset is loaded: on the small projectile, on the earth, on neither of them
DownPoints == {<<150, 75>>, <<150, 76>>, <<152, 75>>}

\* the pointer moves: by how much, and to where on the canvas
PointerMoves ==
  {[movementX |-> 3, movementY |-> -4, clientX |-> 152, clientY |-> 75],
   [movementX |-> -1, movementY |-> 0, clientX |-> 150, clientY |-> 75]}

\* the keys: a removal, the clone of the small projectile, a key without a binding
Keys == {"Delete", "4", "x"}

MaxDragTicks == 1

\* milliseconds between two pointer events: none that the clock shows, some
\* within the period, more than the period
Elapsed == {0, 40, 80}

\* the projectile preset is loaded, then the pointer goes down, moves and goes
\* up, keys are pressed once the pointer has been over the canvas, and the
\* simulation ticks
DragNext ==
  \/ loadPreset("projectile", 1)
  \/ edits > 0 /\ \E at \in DownPoints : mousedown(at[1], at[2])
  \/ edits > 0 /\ \E by \in PointerMoves, elapsed \in Elapsed \ {0} :
                    mousemove(by.movementX, by.movementY, by.clientX, by.clientY,
                              elapsed)
  \/ \E elapsed \in Elapsed : mouseup(elapsed)
  \/ pointer.mouseClientX > 0 /\ \E key \in Keys : keydown(key)
  \/ edits > 0 /\ next(30, FALSE, MaxDragTicks)

SpecDrag == SchedInit /\ [][DragNext]_vars

(***************************************************************************)
(* A tick taken loop iteration by loop iteration                            *)
(***************************************************************************)
MaxLoopTicks == 2

\* an inner loop that is left before its pairs are done
InnerLoopLeftEarly(j, n) == TRUE

\* "j < objects.length" is false: the inner loop of objectA is over
InnerLoopOver(j, n) == j > n

\* Simulation.next up to its loop of steps: the rollover and the cache
tickBegin(ms) ==
  LET deltaTimeSeconds == DeltaSeconds(ms)
      stepsToPerform == DAdd(DMul(deltaTimeSeconds, updatesPerSecond), updateRollover)
      steps == IF DIsFinite(stepsToPerform) THEN DFloor(stepsToPerform) ELSE 0
  IN /\ ~loop.active
     /\ running
     /\ ticks < MaxLoopTicks
     /\ stepsToPerform # DInfinity
     /\ ticks' = ticks + 1
     /\ updateRollover' = DMod1(stepsToPerform)
     /\ unlockedObjects' = updateCaches(objects, pm)
     /\ deltaSum' = XAdd(deltaSum, deltaTimeSeconds)
     /\ loop' = [NoLoop EXCEPT !.active = TRUE, !.ms = ms, !.steps = steps,
                               !.remaining = steps, !.tickStart = pm]
     /\ last' = [op |-> "tickBegin", ms |-> ms]
     /\ UNCHANGED <<pass, pointer, objects, pm, updatesPerSecond, timeStep, timestamp,
                    running, dirty, stepsExecuted, edits, camera>>

\* updateObjects up to its loop of pairs: the clock, and the net forces set to 0
stepBegin ==
  /\ loop.active
  /\ ~loop.stepping
  /\ loop.remaining > 0
  /\ timestamp' = timestampAfter(timestamp, 1, timeStep)
  /\ pm' = ZeroForces(pm, unlockedObjects)
  /\ loop' = [loop EXCEPT !.stepping = TRUE, !.i = 1, !.j = 2, !.integrated = {},
                          !.done = {}, !.stepStart = pm']
  /\ last' = [op |-> "stepBegin"]
  /\ UNCHANGED <<pass, pointer, objects, unlockedObjects, updateRollover,
                 updatesPerSecond, timeStep, running, dirty, stepsExecuted, deltaSum,
                 ticks, edits, camera>>

\* one iteration of the inner loop: the pair objectA, objectB
pairStep ==
  /\ loop.stepping
  /\ loop.i <= Len(unlockedObjects)
  /\ loop.j <= Len(unlockedObjects)
  /\ \E objectA \in {unlockedObjects[loop.i]}, objectB \in {unlockedObjects[loop.j]} :
       /\ pm' = ApplyPair(pm, objectA, objectB)
       /\ loop' = [loop EXCEPT !.j = @ + 1, !.done = @ \cup {<<objectA, objectB>>}]
       /\ last' = [op |-> "pair", objectA |-> objectA, objectB |-> objectB]
  /\ UNCHANGED <<pass, pointer, objects, unlockedObjects, updateRollover,
                 updatesPerSecond, timeStep, timestamp, running, dirty, stepsExecuted,
                 deltaSum, ticks, edits, camera>>

\* the end of an iteration of the outer loop: objectA.updateKinematics
integrate ==
  /\ loop.stepping
  /\ loop.i <= Len(unlockedObjects)
  /\ InnerLoopOver(loop.j, Len(unlockedObjects))
  /\ \E objectA \in {unlockedObjects[loop.i]} :
       /\ pm' = [pm EXCEPT ![objectA] = updateKinematics(@, timeStep)]
       /\ loop' = [loop EXCEPT !.i = @ + 1, !.j = loop.i + 2,
                               !.integrated = @ \cup {objectA}]
       /\ last' = [op |-> "updateKinematics", object |-> objectA]
  /\ UNCHANGED <<pass, pointer, objects, unlockedObjects, updateRollover,
                 updatesPerSecond, timeStep, timestamp, running, dirty, stepsExecuted,
                 deltaSum, ticks, edits, camera>>

\* the outer loop is over, or the cache is empty: updateObjects returns
stepEnd ==
  /\ loop.stepping
  /\ loop.i > Len(unlockedObjects)
  /\ loop' = [loop EXCEPT !.stepping = FALSE, !.remaining = @ - 1]
  /\ dirty' = (dirty \/ Len(unlockedObjects) > 0)
  /\ stepsExecuted' = stepsExecuted + 1
  /\ last' = [op |-> "stepEnd"]
  /\ UNCHANGED <<pass, pointer, objects, unlockedObjects, pm, updateRollover,
                 updatesPerSecond, timeStep, timestamp, running, deltaSum, ticks, edits,
                 camera>>

\* the steps are done: updateTrails and render, and next returns
tickEnd ==
  /\ loop.active
  /\ ~loop.stepping
  /\ loop.remaining = 0
  /\ pm' = updateTrails(pm, objects, running, timestamp)
  /\ dirty' = render(dirty, FALSE)
  /\ loop' = [NoLoop EXCEPT !.steps = loop.steps, !.tickStart = loop.tickStart]
  /\ last' = [op |-> "next", ms |-> loop.ms, steps |-> loop.steps, hidden |-> FALSE]
  /\ UNCHANGED <<pass, pointer, objects, unlockedObjects, updateRollover,
                 updatesPerSecond, timeStep, timestamp, running, stepsExecuted, deltaSum,
                 ticks, edits, camera>>

\* no listener runs while next does: bodies are added between the ticks
LoopNext ==
  \/ ~loop.active /\ \E b \in Bodies : addObject(b)
  \/ tickBegin(30)
  \/ stepBegin
  \/ pairStep
  \/ integrate
  \/ stepEnd
  \/ tickEnd

SpecLoop == Init /\ [][LoopNext]_vars

(***************************************************************************)
(* The step accumulator                                                     *)
(***************************************************************************)
\* the exact product of two binary64 values, not rounded
XMul(a, b) == [m |-> BMul(a.m, b.m), e |-> a.e + b.e]

\* C1: with updatesPerSecond constant, the simulation running and the rollover
\* starting at 0, after any sequence of next(delta) calls the number of executed
\* steps is floor(updatesPerSecond * sum of the deltas), the sum and the product
\* taken exactly.
C1_NoDrift == stepsExecuted = DFloor(XMul(updatesPerSecond, deltaSum))

\* the accumulator agrees with the exact count after some ticks that took steps
C1_Agrees ==
  /\ ticks >= 2
  /\ stepsExecuted >= 2
  /\ stepsExecuted = DFloor(XMul(updatesPerSecond, deltaSum))

(***************************************************************************)
(* Locked bodies                                                            *)
(***************************************************************************)
Moved(b) ==
  \E i, j \in 1..Len(pm[b].trail) :
    pm[b].trail[i].x # pm[b].trail[j].x \/ pm[b].trail[i].y # pm[b].trail[j].y

\* C2: a body whose locked flag is true when a tick starts has the same position
\* and the same velocity when the tick ends, however many steps the tick runs.
C2_LockedBodyKeepsPositionAndVelocity ==
  [][\A b \in Bodies :
       (last'.op = "next" /\ pm[b].locked)
         => /\ pm'[b].position = pm[b].position
            /\ pm'[b].velocity = pm[b].velocity]_vars

\* a tick of two steps or more has run on three bodies, the second of them locked
\* and still where it was put, while an unlocked one has moved
C2_LockedSecondOfThree ==
  /\ last.op = "next"
  /\ last.steps >= 2
  /\ Len(objects) = 3
  /\ pm[objects[2]].locked
  /\ ~Moved(objects[2])
  /\ Len(pm[objects[2]].trail) >= 2
  /\ \E i \in {1, 3} : ~pm[objects[i]].locked /\ Moved(objects[i])

\* what the pair (b, c) puts on b, from the positions in p: spring and gravity
PairForceOn(p, b, c) ==
  LET distance == distanceTo(p[b].position, p[c].position)
      spring == SpringForce(p[b], p[c], distance)
      gravity == GravityForce(p[b], p[c], distance)
  IN IF b = c \/ distance = 0 THEN Vector(0, 0)
     ELSE Vector(NAdd(spring.x, gravity.x), NAdd(spring.y, gravity.y))

RECURSIVE SumForcesOn(_, _, _, _)
SumForcesOn(p, b, others, i) ==
  IF i > Len(others) THEN Vector(0, 0)
  ELSE LET f == PairForceOn(p, b, others[i])
           rest == SumForcesOn(p, b, others, i + 1)
       IN Vector(NAdd(f.x, rest.x), NAdd(f.y, rest.y))

\* C3: in a step the net force on each unlocked body holds the contribution of
\* every other body of the body set, the locked ones included (stated for the
\* ticks of one step, whose pairs all read the positions the tick started with).
C3_LockedBodiesExertForce ==
  [][(last'.op = "next" /\ last'.steps = 1)
       => \A i \in 1..Len(objects) :
            ~pm[objects[i]].locked
              => pm'[objects[i]].netForce = SumForcesOn(pm, objects[i], objects, 1)]_vars

(***************************************************************************)
(* The body set                                                             *)
(***************************************************************************)
NoDuplicates(seq) == \A i, j \in 1..Len(seq) : seq[i] = seq[j] => i = j

\* C4: addObject on a body that is already in the body set fails with an error
\* and leaves the body set as it was; whatever addObject, removeObject, reset
\* and loadPreset do, the body set never holds the same identity twice.
C4_DuplicateAddFails ==
  [][/\ (last'.op = "addObject" /\ InSeq(last'.object, objects))
          => /\ last'.error = "Object already in simulation"
             /\ objects' = objects
     /\ NoDuplicates(objects')]_vars

\* a body of a set of two or more was added again, and the add failed
C4_SecondAddRefused ==
  /\ last.op = "addObject"
  /\ last.error = "Object already in simulation"
  /\ Len(objects) >= 2
  /\ InSeq(last.object, objects)

Holds(p, object, position) ==
  NLess(distanceTo(p[object].position, position), p[object].radius)

\* C5: removeObject on a body that is not in the body set leaves the bodies and
\* their order as they were and raises nothing; picking at a point that lies
\* inside no body returns null and raises nothing.
C5_AbsenceIsNoError ==
  [][/\ (last'.op = "removeObject" /\ ~InSeq(last'.object, objects))
          => /\ objects' = objects
             /\ last'.error = ""
     /\ (last'.op = "getObjectAtPoint"
           /\ \A i \in 1..Len(objects) : ~Holds(pm, objects[i], last'.position))
          => /\ last'.result = Null
             /\ last'.error = ""]_vars

\* the second operation removed a body that the preset of three bodies loaded
\* first did not hold; the three are still there
C5_RemovedAbsentBody ==
  /\ edits = 2
  /\ last.op = "removeObject"
  /\ last.error = ""
  /\ Len(objects) = 3
  /\ ~InSeq(last.object, objects)

(***************************************************************************)
(* Mass                                                                     *)
(***************************************************************************)
\* C6: a mass is never zero or negative: giving a body a mass <= 0 fails at once
\* and leaves the mass as it was, so that no step divides a net force by a
\* mass <= 0.
C6_MassStaysPositive ==
  [][/\ (last'.op = "setMass" /\ last'.mass <= 0)
          => /\ last'.error # ""
             /\ pm' = pm
     /\ (last'.op = "next" /\ last'.steps > 0)
          => \A i \in 1..Len(unlockedObjects') : pm[unlockedObjects'[i]].mass > 0]_vars

\* a step has divided the net force of a body by a mass <= 0
C6_StepDividedByNonPositiveMass ==
  /\ last.op = "next"
  /\ last.steps > 0
  /\ \E i \in 1..Len(unlockedObjects) : pm[unlockedObjects[i]].mass <= 0

(***************************************************************************)
(* The camera                                                               *)
(***************************************************************************)
\* C7: after zoomBy(deltaY, x, y) the simulation point under the screen point
\* (x, y) is the one that was under it before the call, for every camera state,
\* canvas and wheel delta, also when the new zoom is clamped to MIN_ZOOM.
C7_ZoomKeepsAnchor ==
  last.op = "zoomBy"
    => getSimulationPointAtScreenPoint(center, zoom, canvas, last.screenX, last.screenY)
         = last.point

\* a zoom away from a point off the middle of the canvas was clamped to MIN_ZOOM,
\* the center moved, and the anchor is where it was
C7_ClampedZoomKeptAnchor ==
  /\ last.op = "zoomBy"
  /\ last.deltaY > 0
  /\ zoom = MIN_ZOOM
  /\ ~QLess(MIN_ZOOM, newZoomOf(last.zoom, last.deltaY))
  /\ QLess(MIN_ZOOM, last.zoom)
  /\ center # Vector(QZero, QZero)
  /\ getSimulationPointAtScreenPoint(center, zoom, canvas, last.screenX, last.screenY)
       = last.point

(***************************************************************************)
(* The force pass                                                           *)
(***************************************************************************)
Finite(o) ==
  /\ IsFinite(o.netForce.x) /\ IsFinite(o.netForce.y)
  /\ IsFinite(o.velocity.x) /\ IsFinite(o.velocity.y)
  /\ IsFinite(o.position.x) /\ IsFinite(o.position.y)

\* two bodies of the cache are at the same coordinates
Coincide(p, cache) ==
  \E i, j \in 1..Len(cache) : i # j /\ p[cache[i]].position = p[cache[j]].position

\* C8: in a tick that starts with two unlocked bodies at identical coordinates,
\* that pair adds nothing to the net force of either (the net force of each body
\* is what the pairs at nonzero distance add), no non-finite value enters a net
\* force, a velocity or a position, and the tick runs all its steps.
C8_CoincidentPairAddsNothing ==
  [][(last'.op = "next" /\ Coincide(pm, unlockedObjects'))
       => /\ \A b \in Bodies : Finite(pm'[b])
          /\ stepsExecuted' = stepsExecuted + last'.steps
          /\ timestamp' = timestamp + last'.steps * timeStep
          /\ last'.steps = 1
               => \A i \in 1..Len(unlockedObjects') :
                    pm'[unlockedObjects'[i]].netForce
                      = SumForcesOn(pm, unlockedObjects'[i], unlockedObjects', 1)]_vars

\* the first step of a set of three unlocked bodies, the first and the third of
\* them at the same coordinates when it began (as the trail of the tick before
\* shows); the second body has put a force on both
C8_SteppedWithCoincidentBodies ==
  /\ last.op = "next"
  /\ stepsExecuted = 1
  /\ Len(unlockedObjects) = 3
  /\ Len(pm[1].trail) = 2
  /\ Len(pm[3].trail) = 2
  /\ pm[1].trail[1].x = pm[3].trail[1].x
  /\ pm[1].trail[1].y = pm[3].trail[1].y
  /\ pm[1].netForce # Vector(0, 0)
  /\ pm[3].netForce # Vector(0, 0)
  /\ \A b \in Bodies : Finite(pm[b])

\* the penalty of the pair (a, b) on a is as C10 has it: none unless the circles
\* overlap, else min(mA, mB) * overlap in magnitude, from b toward a, each within
\* the rounding of the grid
PenaltyAsClaimed(a, b, penalty) ==
  \A distance \in {distanceTo(a.position, b.position)},
     magnitude \in {ISqrt(penalty.x * penalty.x + penalty.y * penalty.y)} :
    LET overlap == a.radius + b.radius - distance
        towardAX == a.position.x - b.position.x
        towardAY == a.position.y - b.position.y
    IN IF overlap > 0
       THEN /\ Abs(magnitude - NMul(NMin(a.mass, b.mass), overlap)) <= 1
            /\ penalty.x * towardAX >= 0
            /\ penalty.y * towardAY >= 0
            /\ 2 * Abs(penalty.x * towardAY - penalty.y * towardAX)
                 <= Abs(towardAX) + Abs(towardAY)
       ELSE penalty = Vector(0, 0)

\* C10: a penalty force is applied to a pair exactly when overlap > 0; it has the
\* magnitude min(mA, mB) * overlap, acts on A from B toward A and on B with the
\* opposite sign.  Stated of the one-step ticks on two bodies, where the net
\* force less gravity is the penalty, and of the spring of every pair of bodies
\* wherever the ticks take them.
C10_PenaltyForce ==
  [][last'.op = "next"
       => /\ (last'.steps = 1 /\ Len(unlockedObjects') = 2)
               => \A a \in {pm[unlockedObjects'[1]]}, b \in {pm[unlockedObjects'[2]]},
                     onA \in {pm'[unlockedObjects'[1]].netForce},
                     onB \in {pm'[unlockedObjects'[2]].netForce} :
                    \A distance \in {distanceTo(a.position, b.position)} :
                      \A gravity \in {GravityForce(a, b, distance)} :
                        distance # 0
                          => /\ \A penalty \in {Vector(onA.x - gravity.x,
                                                         onA.y - gravity.y)} :
                                  PenaltyAsClaimed(a, b, penalty)
                             /\ onB = Vector(0 - onA.x, 0 - onA.y)
          /\ \A i, j \in Bodies :
               \A a \in {pm'[i]}, b \in {pm'[j]} :
                 (i # j /\ Finite(a) /\ Finite(b))
                   => \A distance \in {distanceTo(a.position, b.position)} :
                        distance # 0
                          => \A penalty \in {SpringForce(a, b, distance)} :
                               PenaltyAsClaimed(a, b, penalty)]_vars

\* the first step of the two bodies of radius 10 with centers 15 apart: each has
\* the penalty min(mA, mB) * 5 away from the other, less their gravity
C10_RadiusTenFifteenApart ==
  LET made == Pool(CHOOSE q \in Placements : TRUE, Null)
      gravity == GravityForce(made[1], made[2], Num(15, 1))
      penalty == NMul(NMin(made[1].mass, made[2].mass), Num(5, 1))
  IN /\ made[1].radius = Num(10, 1) /\ made[2].radius = Num(10, 1)
     /\ distanceTo(made[1].position, made[2].position) = Num(15, 1)
     /\ last.op = "next"
     /\ stepsExecuted = 1
     /\ unlockedObjects = <<1, 2>>
     /\ pm[1].netForce = Vector(gravity.x - penalty, 0)
     /\ pm[2].netForce = Vector(penalty - gravity.x, 0)

(***************************************************************************)
(* Newton's third law in the accumulation                                   *)
(***************************************************************************)
PassComplete == pass.n > 0 /\ pass.pair = Len(Pairs(pass.n))

\* C9, as stated: every pair adds to A exactly the negation of what it adds to
\* B, so at the end of the force pass of a step the net forces of the bodies of
\* the iteration set sum to zero.
C9_NetForcesSumToZero == PassComplete => XSum(pass.net, 1) = SZero

\* C9, amended: every pair adds to A exactly the negation of what it adds to B,
\* so in an iteration set of two bodies the net force of one is exactly the
\* negation of the net force of the other (their sum is zero) all through the
\* force pass.  With three bodies or more the sum is zero only up to the
\* rounding of the accumulations.
C9_TwoBodiesExactNegation ==
  pass.n = 2
    => /\ pass.net[1] = SNeg(pass.net[2])
       /\ XSum(pass.net, 1) = SZero

\* the pass of two bodies is complete; the pair collided, and the sum of its
\* spring and its gravity was rounded
C9_TwoBodiesRounded ==
  /\ pass.n = 2
  /\ PassComplete
  /\ last.op = "accumulate"
  /\ last.collides
  /\ pass.net[1] = Signed(1, DRound(<<1>>, 0))
  /\ pass.net[2] = Signed(-1, DRound(<<1>>, 0))

(***************************************************************************)
(* Speed and the clock                                                      *)
(***************************************************************************)
\* timeStep * updatesPerSecond, as getSpeedRelativeToRealtime computes it, less
\* its sign
SpeedMagnitude == DMul(TimeStepValue(timeStep), updatesPerSecond)

DPositive(a) == a # DZero /\ a # DNaN

\* what C14 says of updatesPerSecond and of timeStep, the product apart
SpeedSettings ==
  /\ DPositive(updatesPerSecond)
  /\ Abs(timeStep) = (IF DExceeds(last.speed, 1000) THEN Num(1, 10) ELSE Num(5, 100))
  /\ (timeStep < 0) = (last.halves < 0)

\* a and b are finite and at most one unit in the last place of b apart
WithinOneUlp(a, b) ==
  /\ DIsFinite(a) /\ DIsFinite(b)
  /\ \A d \in {XSAdd(Signed(1, a), Signed(-1, b))} :
       d.m = <<>> \/ BCmp(d.m, BShl(<<1>>, b.e - d.e)) <= 0

C16_RolloverInUnitInterval == DLessThanOne(updateRollover)

\* the rollover is a fraction in (0, 1) after a tick at a speed that
\* setExponentialSpeed has set
C16_FractionCarried ==
  /\ last.op = "next"
  /\ updatesPerSecond # DFromInt(60)
  /\ updateRollover # DZero
  /\ DLessThanOne(updateRollover)

\* C19, as stated: every executed step adds timeStep to timestamp, timestamp
\* never decreases, whatever ticks and setExponentialSpeed calls there are, and
\* it changes only when a step executes.
C19_ClockNeverDecreases ==
  [][/\ timestamp' >= timestamp
     /\ timestamp' = timestamp
                       + (IF last'.op = "next" THEN last'.steps * timeStep ELSE 0)]_vars

\* C19, amended: every executed step adds timeStep to timestamp and nothing else
\* changes it, so that timestamp never decreases while timeStep is positive; after
\* setExponentialSpeed with a negative exponent timeStep is negative and
\* timestamp decreases with every step.
C19_ClockMovesByTimeStep ==
  [][/\ timestamp' = timestamp
                       + (IF last'.op = "next" THEN last'.steps * timeStep ELSE 0)
     /\ timeStep > 0 => timestamp' >= timestamp
     /\ (timeStep < 0 /\ last'.op = "next" /\ last'.steps > 0)
          => timestamp' < timestamp]_vars

\* steps have run forwards and then backwards: the clock is below where it was
C19_ClockRanBackwards ==
  /\ last.op = "next"
  /\ last.steps > 0
  /\ timeStep < 0
  /\ ticks >= 2
  /\ stepsExecuted > last.steps
  /\ timestamp < (stepsExecuted - last.steps) * Num(1, 60)

(***************************************************************************)
(* Ticks and trails                                                         *)
(***************************************************************************)
\* C18: a tick that runs no step changes no simulation state but the
\* accumulator: no position, velocity, net force or trail of a body changes, and
\* the clock does not advance.
C18_ZeroStepTickChangesNothing ==
  [][(last'.op = "next" /\ last'.steps = 0) => pm' = pm /\ timestamp' = timestamp]_vars

\* a tick of no step has left a point in the trail of a body
C18_ZeroStepTickLeftTrailPoint ==
  /\ last.op = "next"
  /\ stepsExecuted = 0
  /\ \E b \in Bodies : pm[b].trail # <<>>

\* C20: the trail of a body is a bounded FIFO: it never holds more than
\* MAX_TRAILS points, a tick appends the new point after the ones it holds, in
\* their order, and a point added to a full trail evicts the oldest and no other.
C20_TrailIsBoundedFifo ==
  [][last'.op = "next"
       => \A i \in 1..Len(objects) :
            \A old \in {pm[objects[i]].trail}, new \in {pm'[objects[i]].trail} :
              /\ Len(new) <= MAX_TRAILS
              /\ new = (IF Len(old) = MAX_TRAILS THEN Tail(old) ELSE old)
                        \o <<[x |-> pm'[objects[i]].position.x,
                              y |-> pm'[objects[i]].position.y,
                              timestamp |-> timestamp']>>]_vars

\* the trail is full and has evicted its first points: it starts after the
\* clock began and ends at the point of the last tick
C20_FullTrailEvictedOldest ==
  /\ last.op = "next"
  /\ ticks > MAX_TRAILS + 1
  /\ Len(pm[2].trail) = MAX_TRAILS
  /\ pm[2].trail[1].timestamp > 0
  /\ pm[2].trail[MAX_TRAILS].timestamp = timestamp
  /\ \A i \in 1..(MAX_TRAILS - 1) :
       pm[2].trail[i].timestamp <= pm[2].trail[i + 1].timestamp

(***************************************************************************)
(* Dragging                                                                 *)
(***************************************************************************)
Idle == pointer.sessions = <<>>

\* the drag the last mousedown listener started
Started == pointer'.sessions[Len(pointer'.sessions)]

\* C11: from Idle, a pointer-down over a body that is not uninteractable starts a
\* drag of that body and sets its locked flag; in every other case (no body under
\* the pointer, or an uninteractable one) it starts a drag of the viewport, in
\* which the pointer moves that follow pan the camera.
C11_PointerDownStartsADrag ==
  [][/\ (Idle /\ last'.op = "mousedown")
          => \A o \in {last'.object} :
               IF o # Null /\ ~pm[o].uninteractable
               THEN /\ Len(pointer'.sessions) = 1
                    /\ Started.object = o
                    /\ pm'[o].locked
               ELSE /\ Len(pointer'.sessions) = 1
                    /\ Started.object = Null
     /\ (last'.op = "mousemove" /\ Len(pointer.sessions) = 1
           /\ pointer.sessions[1].object = Null)
          => center' = panned(center, zoom, last'.movementX, last'.movementY)]_vars

\* the last of the drags of a body that a mouseup ends
LastDragOf(sessions, o) ==
  sessions[CHOOSE k \in 1..Len(sessions) :
             /\ sessions[k].object = o
             /\ \A l \in (k + 1)..Len(sessions) : sessions[l].object # o]

\* C12: a pointer-up that ends the drag of a body, after any number of pointer
\* moves, leaves the body with locked = false, a net force of (0, 0) and the fling
\* velocity of the drag, and the pointer Idle; no body is locked while Idle.
C12_PointerUpReleases ==
  [][/\ last'.op = "mouseup"
          => /\ pointer'.sessions = <<>>
             /\ ~pointer'.interacting
             /\ \A k \in 1..Len(pointer.sessions) :
                  \A o \in {pointer.sessions[k].object} :
                    o # Null
                      => /\ ~pm'[o].locked
                         /\ pm'[o].netForce = Vector(0, 0)
                         /\ pm'[o].velocity =
                              calculateVelocity(LastDragOf(pointer.sessions, o).history,
                                                pointer'.now, zoom)
     /\ pointer'.sessions = <<>> => \A b \in AllBodies : ~pm'[b].locked]_vars

\* the small projectile was dragged by two pointer moves and released with a
\* velocity
C12_ReleasedAfterTwoMoves ==
  /\ last.op = "mouseup"
  /\ Idle
  /\ \E k \in 1..Len(last.sessions) :
       /\ last.sessions[k].object = smallProjectile
       /\ Len(last.sessions[k].history) = 2
  /\ ~pm[smallProjectile].locked
  /\ pm[smallProjectile].netForce = Vector(0, 0)
  /\ pm[smallProjectile].velocity # Vector(0, 0)
  /\ pm[smallProjectile].position # smallProjectileMade.position

\* a release velocity per second: the sum over the seconds from the oldest sample
PerSecond(sum, realPeriod, zm) ==
  IF realPeriod = 0 THEN (IF sum = 0 THEN 0 ELSE NaN)
  ELSE QToGrid(QDiv(QDiv(QFromInt(sum * 1000), QFromInt(realPeriod)), zm))

\* C17: when a pointer move lies within the 75 ms before the release, the release
\* velocity is the sum of the screen deltas of the moves within them, over the
\* seconds from the oldest of these moves to the release, over the zoom; older
\* moves add nothing.
C17_FlingIsPixelsPerSecond ==
  [][last'.op = "mouseup"
       => \A k \in 1..Len(pointer.sessions) :
            \A o \in {pointer.sessions[k].object} :
              \A relevant \in {relevantHistory(LastDragOf(pointer.sessions, o).history,
                                               pointer'.now)} :
                (o # Null /\ relevant # <<>>)
                  => \A realPeriod \in {pointer'.now - relevant[1].time} :
                       pm'[o].velocity =
                         Vector(PerSecond(SumOf(relevant, "x"), realPeriod, zoom),
                                PerSecond(SumOf(relevant, "y"), realPeriod, zoom))]_vars

\* a body was released after two moves, the first of them older than the period
C17_OldMoveLeftOut ==
  /\ last.op = "mouseup"
  /\ \E k \in 1..Len(last.sessions) :
       /\ last.sessions[k].object = smallProjectile
       /\ Len(last.sessions[k].history) = 2
       /\ Len(relevantHistory(last.sessions[k].history, last.now)) = 1
  /\ pm[smallProjectile].velocity # Vector(0, 0)

(***************************************************************************)
(* Removal                                                                  *)
(***************************************************************************)
\* a tick has left b as it was and keeps it out of the bodies it steps
LeftOut(b) ==
  /\ ~InSeq(b, unlockedObjects')
  /\ pm'[b].position = pm[b].position
  /\ pm'[b].velocity = pm[b].velocity
  /\ pm'[b].netForce = pm[b].netForce

\* C13: once removeObject(b) has been called between two ticks, held or not, no
\* later tick integrates b or takes b into a force pair, and the removal itself
\* changes the position, velocity and net force of no body.
C13_RemovedBodyLeavesTheTicks ==
  [][/\ last'.op = "removeObject" => pm' = pm
     /\ (last.op = "removeObject" /\ last'.op = "next") => LeftOut(last.object)
     /\ last'.op = "next" => \A b \in Bodies : ~InSeq(b, objects) => LeftOut(b)
     /\ (last'.op = "next" /\ last'.steps = 1)
          => \A cache \in {unlockedObjects'} :
               \A i \in 1..Len(cache) :
                 pm'[cache[i]].netForce = SumForcesOn(pm, cache[i], cache, 1)]_vars

\* a held body that a tick had seen was removed, and a tick of some steps has run
\* on the bodies that remain
C13_HeldBodyRemovedThenTick ==
  /\ last.op = "next"
  /\ last.steps > 0
  /\ unlockedObjects # <<>>
  /\ \E b \in Bodies :
       /\ ~InSeq(b, objects)
       /\ pm[b].locked
       /\ Len(pm[b].trail) = 1
       /\ ticks = 2

(***************************************************************************)
(* The order of the loops of a step                                         *)
(***************************************************************************)
\* the pairs of the two loops over a cache
AllPairs(objs) == {<<objs[i], objs[j]>> : i, j \in 1..Len(objs)} \ {<<b, b>> : b \in AllBodies}

PairsOf(objs) ==
  {pair \in AllPairs(objs) :
     \E i, j \in 1..Len(objs) : i < j /\ pair = <<objs[i], objs[j]>>}

\* a tick taken in pieces ends with the bodies next gives in one piece
LoopAgreesWithNext ==
  [][last'.op = "next"
       => pm' = updateTrails(RunSteps(loop.tickStart, unlockedObjects, timeStep,
                                      loop.steps),
                             objects, running, timestamp)]_vars

\* a step in two phases: every pair is accumulated, then every body is integrated
RECURSIVE AccumulateAll(_, _, _)
AccumulateAll(p, objs, i) ==
  IF i > Len(objs) THEN p ELSE AccumulateAll(InnerLoop(p, objs, i, i + 1), objs, i + 1)

RECURSIVE IntegrateAll(_, _, _, _)
IntegrateAll(p, objs, i, step) ==
  IF i > Len(objs) THEN p
  ELSE IntegrateAll([p EXCEPT ![objs[i]] = updateKinematics(@, step)], objs, i + 1, step)

C21_HiddenTickAddsNoTrailPoint ==
  [][(last'.op = "next" /\ last'.hidden)
       => /\ dirty' = (dirty \/ (last'.steps > 0 /\ unlockedObjects' # <<>>))
          /\ \A b \in AllBodies : pm'[b].trail = pm[b].trail
          /\ \A stepped \in {RunSteps(pm, unlockedObjects', timeStep, last'.steps)} :
               \A b \in AllBodies :
                 /\ pm'[b].position = stepped[b].position
                 /\ pm'[b].velocity = stepped[b].velocity
                 /\ pm'[b].netForce = stepped[b].netForce]_vars

\* a tick of some steps that found the document hidden has rendered nothing and
\* left a point in the trail of a body
C21_HiddenTickLeftTrailPoint ==
  /\ last.op = "next"
  /\ last.hidden
  /\ last.steps > 0
  /\ dirty
  /\ ticks = 1
  /\ \E b \in Bodies : InSeq(b, objects) /\ Len(pm[b].trail) = 1

(***************************************************************************)
(* The interleaved loop and a step in two phases                            *)
(***************************************************************************)
\* steps in two phases: the net forces are set to 0, every pair is accumulated
\* from the positions the step starts with, then every body is integrated
RECURSIVE TwoPhaseSteps(_, _, _, _)
TwoPhaseSteps(p, objs, step, n) ==
  IF n = 0 \/ objs = <<>> THEN p
  ELSE TwoPhaseSteps(IntegrateAll(AccumulateAll(ZeroForces(p, objs), objs, 1),
                                  objs, 1, step),
                     objs, step, n - 1)

\* C24: the loop of updateObjects, which integrates each body right after the
\* inner loop over its later partners, gives every body the net force, velocity
\* and position of a step in two phases, in every step of every tick.
C24_InterleavedIsTwoPhase ==
  [][last'.op = "next"
       => \A twoPhase \in {TwoPhaseSteps(pm, unlockedObjects', timeStep, last'.steps)} :
            \A b \in AllBodies :
              /\ pm'[b].netForce = twoPhase[b].netForce
              /\ pm'[b].velocity = twoPhase[b].velocity
              /\ pm'[b].position = twoPhase[b].position]_vars

\* a tick of two steps has run on three unlocked bodies, which all bear a force
\* and two of which have moved
C24_TwoStepsOfThreeBodies ==
  /\ last.op = "next"
  /\ last.steps = 2
  /\ Len(unlockedObjects) = 3
  /\ \E i, j \in 1..3 : i # j /\ Moved(unlockedObjects[i]) /\ Moved(unlockedObjects[j])
  /\ \A i \in 1..3 : pm[unlockedObjects[i]].netForce # Vector(0, 0)

(***************************************************************************)
(* Pause and resume                                                         *)
(***************************************************************************)
\* what pause, resume and a tick of a paused simulation leave alone
SimulationUnchanged ==
  /\ timestamp' = timestamp
  /\ updateRollover' = updateRollover
  /\ stepsExecuted' = stepsExecuted
  /\ pm' = pm
  /\ objects' = objects
  /\ updatesPerSecond' = updatesPerSecond
  /\ timeStep' = timeStep

\* C28: while the simulation is paused next runs no step, whatever the delta: the
\* clock, the accumulator and every body's position, velocity, net force and
\* trail stay as they are; pause and resume change the running flag alone, each
\* to the same value however often it is called, so that the first tick after a
\* resume steps from the accumulator held at the pause.
C28_PausedTickChangesNothing ==
  [][/\ (last'.op = "next" /\ ~running) => (last'.steps = 0 /\ SimulationUnchanged)
     /\ last'.op = "pause" => (~running' /\ SimulationUnchanged)
     /\ last'.op = "resume" => (running' /\ SimulationUnchanged)
     /\ (last'.op = "next" /\ running)
          => \A stepsToPerform \in
                 {DAdd(DMul(DeltaSeconds(last'.ms), updatesPerSecond), updateRollover)} :
               /\ last'.steps = DFloor(stepsToPerform)
               /\ updateRollover' = DMod1(stepsToPerform)]_vars

\* a simulation that has stepped a body and carries a fraction has been paused,
\* and a tick has come while it was
C28_TickWhilePaused ==
  /\ last.op = "next"
  /\ ~running
  /\ stepsExecuted > 0
  /\ updateRollover # DZero
  /\ \E b \in Bodies : InSeq(b, objects) /\ Len(pm[b].trail) = 1
  /\ ticks = 2

(***************************************************************************)
(* The floor of the zoom                                                    *)
(***************************************************************************)
\* C23: in every reachable state zoom >= MIN_ZOOM > 0, after any zoomBy calls
\* with any wheel deltas, pans and preset loads; zoomBy puts no upper bound on
\* the zoom.
C23_ZoomAtLeastMinZoom ==
  /\ zoom # QNaN
  /\ zoom = QInfinity \/ ~QLess(zoom, MIN_ZOOM)

\* a wheel delta has brought the zoom down to MIN_ZOOM
C23_ZoomAtFloor == last.op = "zoomBy" /\ zoom = MIN_ZOOM

(***************************************************************************)
(* The drag of a body                                                       *)
(***************************************************************************)
\* the step is a mousemove that the listeners of the drags under way have heard
PointerMoved ==
  /\ pointer.sessions # <<>>
  /\ Len(pointer'.sessions) = Len(pointer.sessions)
  /\ pointer'.sessions # pointer.sessions

\* the bodies that the drags under way hold
Dragged == {pointer.sessions[k].object : k \in 1..Len(pointer.sessions)} \ {Null}

\* C22: while a body is dragged, a pointer move of (dx, dy) adds exactly
\* (dx / zoom, dy / zoom) to its position and leaves its velocity, its mass and
\* every other body as they were; the velocity of the dragged body stays what it
\* was until the pointer goes up, also across the ticks in between.
C22_MoveAddsMovementOverZoom ==
  [][/\ PointerMoved
          => /\ \A o \in Dragged :
                  pm'[o] = movedBy(pm[o], zoom, last'.movementX, last'.movementY)
             /\ \A b \in AllBodies \ Dragged : pm'[b] = pm[b]
     /\ pointer'.sessions # <<>>
          => \A o \in Dragged : pm'[o].velocity = pm[o].velocity]_vars

\* C26: the velocity a release gives the dragged body is finite whenever the zoom
\* is positive, also when the only sample of the window has the timestamp of the
\* release and a movement that is not zero; a window without samples gives
\* exactly (0, 0).
C26_ReleaseVelocityIsFinite ==
  [][(pointer.sessions # <<>> /\ pointer'.sessions = <<>> /\ QLess(QZero, zoom))
       => \A o \in Dragged :
            /\ IsFinite(pm'[o].velocity.x)
            /\ IsFinite(pm'[o].velocity.y)
            /\ relevantHistory(LastDragOf(pointer.sessions, o).history,
                               pointer'.now) = <<>>
                 => pm'[o].velocity = Vector(0, 0)]_vars

(***************************************************************************)
(* The keys and the locks                                                   *)
(***************************************************************************)
\* the body under the pointer, as the keydown listener looks it up
UnderCursor ==
  getObjectAtScreenPoint(pm, objects, center, zoom, canvas,
                         pointer.mouseClientX, pointer.mouseClientY)

\* C25: once a pointer-up has ended a drag, no body remains recorded as the
\* interacting body: a Delete or Backspace pressed afterwards removes the body
\* under the cursor, or nothing when there is none, and never the body that was
\* dragged before and is no longer under the cursor.
C25_DeleteRemovesBodyUnderCursor ==
  [][/\ (pointer.sessions # <<>> /\ pointer'.sessions = <<>>)
          => pointer'.interactingObject = Null
     /\ (Idle /\ last'.op = "keydown" /\ last'.key \in {"Delete", "Backspace"})
          => \A under \in {UnderCursor} :
               objects' = IF under = Null THEN objects ELSE Without(objects, under)]_vars

====
